---- MODULE Spec2Model ----
(***************************************************************************)
(* Commit stage of the calculation pipeline: PostProcessor.process         *)
(* (idempotency check, database transaction, outbox insert, cache,         *)
(* webhooks, idempotency store) and the EventOutbox background publisher   *)
(* that drains the event_outbox table to the event bus.                    *)
(*                                                                         *)
(* The database is the external collaborator: statements issued through a  *)
(* transaction object are buffered and become visible at COMMIT;           *)
(* statements issued through the pool are autocommitted.                   *)
(***************************************************************************)
EXTENDS Integers, Sequences, FiniteSets, TLC

\* ---------------------------------------------------------------- bounds
MaxRetries == 2
MaxFaults == 2
MaxEmitted == 4
MaxStartCalls == 3
MaxFirings == 4
MaxBatch == 2
MaxVersion == 2
MaxObjects == 20
PoolSize == 2

\* LIMIT of the claim query (EventOutbox.js:107)
BatchLimit == 100

\* Two overlapping invocations of the commit stage.
Calls == {1, 2}
Proposals == {"pA", "pB"}
Checksums == {"c1", "c2"}
Publishers == {"w1", "w2"}

NoResult == [checksum |-> "none", proposalId |-> "none"]
ErrorResponse == [checksum |-> "error", proposalId |-> "error"]
NoEvent == [id |-> 0, status |-> "NONE", retry_count |-> 0, max_retries |-> 0]

VARIABLES
  callPc,              \* position of each PostProcessor.process invocation
  callReq,             \* its request: [proposalId, checksum]
  response,            \* what the invocation returned (or ErrorResponse)
  hit,                 \* the invocation returned from the idempotency store
  txState,             \* "none" | "open" | "committed" | "rolledback"
  txBuf,               \* rows inserted through tx, invisible until COMMIT
  resultWrites,        \* upserts into calculation_results done by the call
  webhookCalls,        \* "none" | "ok" | "failed"
  priorDone,           \* calls that had returned a result when this one began
  idemCache,           \* IdempotencyChecker.cache : checksum -> result
  resultCache,         \* keys written by CacheUpdater.update
  calculation_results, \* table: proposalId -> checksum
  event_outbox,        \* table (committed rows): id -> row
  nextId,              \* serial of event_outbox.id / created_at order
  commitOrder,         \* row ids in the order their transactions committed
  isProcessing,        \* EventOutbox.isProcessing, per publisher
  pubPc,               \* position of the publisher run
  batch,               \* rows returned by fetchPendingEvents, not yet processed
  cur,                 \* the event object handed to processEvent
  emitted,             \* the broker's log: row ids in emission order
  now,                 \* the clock
  commitFaults,        \* whether commit-stage operations may throw
  pubFaults            \* failures the publisher may still meet

\* The interval timer of one EventOutbox and the invocations it makes.
VARIABLES
  processingInterval,  \* EventOutbox.processingInterval is set
  timers,              \* intervals registered with setInterval and not cleared
  startCalls,          \* calls of startProcessing so far
  fired,               \* invocations of processPendingEvents by the timer
  guarded,             \* invocations that returned at the isProcessing test
  runPc,               \* position of each invocation
  runLeft              \* events its for loop has still to process

loopVars == <<processingInterval, timers, startCalls, fired, guarded, runPc,
              runLeft>>

\* The preparation stage (PreProcessor) and its callers.
VARIABLES
  prepPc,              \* position of each PreProcessor.process call
  prepReq,             \* the proposalId it asks for
  prepBody,            \* the line items and modifiers its request carries
  prepOwner,           \* the call whose _doProcess promise it returned
  prepResult,          \* what its promise settled to
  inFlight,            \* PreProcessor.inFlight : proposalId -> owning call
  prepCache,           \* cache keys held by the CacheManager
  fetchesBy            \* dataFetcher.fetchAll calls made for each call

prepVars == <<prepPc, prepReq, prepBody, prepOwner, prepResult, inFlight,
              prepCache, fetchesBy>>

\* CalculationStateManager: calculateWithLock and the advisory lock.
VARIABLES
  lockPc,              \* position of each calculateWithLock call
  lockReq,             \* its [proposalId, key] (key: the idempotency key)
  lockOutcome,         \* "none" | "result" | "existing" | "error"
  lockHolder,          \* advisory lock: proposalId -> call whose session holds it
  calculations,        \* idempotency keys stored in table calculations
  poolFree,            \* idle connections of the pool this.db
  clientsHeld          \* per call: clients it took with getClient and not released

lockVars == <<lockPc, lockReq, lockOutcome, lockHolder, calculations,
              poolFree, clientsHeld>>

\* CalculationOrchestrator.calculate and the stages it invokes.
VARIABLES
  orchPc,              \* position of each calculate call
  stagesRun,           \* stages the call has invoked, in order
  failedAt,            \* the stage that threw, or "none"
  orchOutcome,         \* "none" | "result" | "error"
  totalRequests,       \* metrics.totalRequests
  errors               \* metrics.errors

orchVars == <<orchPc, stagesRun, failedAt, orchOutcome, totalRequests, errors>>

\* DataFetcher.fetchAll against the proposal store.
VARIABLES
  storeVersion,        \* the committed state of the proposal store
  fetchPc,             \* position of each fetchAll call
  readVersion          \* per call and table: the committed state its read saw

fetchVars == <<storeVersion, fetchPc, readVersion>>

VARIABLES
  heap,                \* the objects of the process: frozen flag, value, refs
  inputCache,          \* the root CacheManager holds under the request's key
  basePrepared,        \* the root _doProcess prepared from the fetched data
  holding,             \* per caller: the root preparation returned to it
  lastDelta,           \* the latest applyDelta: cached root and returned root
  lastWrite            \* the latest assignment tried through a held input

freezeVars == <<heap, inputCache, basePrepared, holding, lastDelta, lastWrite>>

VARIABLES
  input,               \* the argument of the pure function under check
  results              \* what the function returned for it so far

engineVars == <<input, results>>

VARIABLES
  cache,               \* CacheManager.cache: the keys that have a value
  ttlMap,              \* CacheManager.ttlMap: expiration time per key
  accessOrder,         \* CacheManager.accessOrder: keys, least recent first
  clock,               \* Date.now()
  storedAt,            \* per key: when set last stored it, and with which ttl
  lookup               \* the latest get: its key, its answer, the entry's age

cacheVars == <<cache, ttlMap, accessOrder, clock, storedAt, lookup>>

VARIABLES
  tierLatencies,       \* CalculationOrchestrator.metrics.tierLatencies
  recentSamples,       \* MetricsCollector: recentSamples of stage fullProcess
  irregular            \* requests so far that hit the cache or failed

metricsVars == <<tierLatencies, recentSamples, irregular>>

\* CalculationStateManager: the caches of getOrCalculate.
VARIABLES
  proposalCache,       \* this.cache: proposalId -> result
  idempotencyCache,    \* this.idempotencyCache: idempotency key -> result
  returned             \* the latest getOrCalculate call and what it returned

managerVars == <<proposalCache, idempotencyCache, returned>>

\* State of the components outside the commit stage and the publisher run.
extVars == <<loopVars, prepVars, lockVars, orchVars, fetchVars, freezeVars,
               engineVars,
               cacheVars,
               metricsVars,
               managerVars>>

vars == <<callPc, callReq, response, hit, txState, txBuf, resultWrites,
          webhookCalls, priorDone, idemCache, resultCache,
          calculation_results, event_outbox, nextId, commitOrder,
          isProcessing, pubPc, batch, cur, emitted, now, commitFaults,
          pubFaults, extVars>>

callVars == <<callPc, callReq, response, hit, txState, txBuf, resultWrites,
              webhookCalls, priorDone, idemCache, resultCache,
              calculation_results, nextId, commitOrder>>

pubVars == <<isProcessing, pubPc, batch, cur, emitted>>

\* Invocations of processPendingEvents the timer can have outstanding.
Runs == {1, 2, 3}

\* The PostProcessor constructor has called startProcessing(5000).
LoopInit ==
  /\ processingInterval = TRUE
  /\ timers = 1
  /\ startCalls = 1
  /\ fired = 0
  /\ guarded = 0
  /\ runPc = [r \in Runs |-> "idle"]
  /\ runLeft = [r \in Runs |-> 0]

\* Calls of PreProcessor.process; 0 stands for "no call".
PrepCalls == {1, 2, 3}
Bodies == {"b1", "b2"}

PrepInit ==
  /\ prepPc = [r \in PrepCalls |-> "idle"]
  /\ prepReq = [r \in PrepCalls |-> "none"]
  /\ prepBody = [r \in PrepCalls |-> "none"]
  /\ prepOwner = [r \in PrepCalls |-> 0]
  /\ prepResult = [r \in PrepCalls |-> "none"]
  /\ inFlight = [a \in Proposals |-> 0]
  /\ prepCache = {}
  /\ fetchesBy = [r \in PrepCalls |-> 0]

\* Calls of CalculationStateManager.calculateWithLock; 0 is "no call".
LockCalls == {1, 2}

LockInit ==
  /\ lockPc = [c \in LockCalls |-> "idle"]
  /\ lockReq = [c \in LockCalls |-> [proposalId |-> "none", key |-> "none"]]
  /\ lockOutcome = [c \in LockCalls |-> "none"]
  /\ lockHolder = [a \in Proposals |-> 0]
  /\ calculations = {}
  /\ poolFree = PoolSize
  /\ clientsHeld = [c \in LockCalls |-> 0]

\* Calls of CalculationOrchestrator.calculate.
OrchCalls == {1, 2, 3}

OrchInit ==
  /\ orchPc = [o \in OrchCalls |-> "idle"]
  /\ stagesRun = [o \in OrchCalls |-> << >>]
  /\ failedAt = [o \in OrchCalls |-> "none"]
  /\ orchOutcome = [o \in OrchCalls |-> "none"]
  /\ totalRequests = 0
  /\ errors = 0

\* Calls of DataFetcher.fetchAll, and the tables it reads.
Fetches == {1, 2}
ParallelTables == {"proposals", "line_items", "modifiers", "dependencies"}
Tables == ParallelTables \cup {"rules"}
NotRead == -1

FetchInit ==
  /\ storeVersion = 0
  /\ fetchPc = [f \in Fetches |-> "idle"]
  /\ readVersion = [f \in Fetches |-> [t \in Tables |-> NotRead]]

Holders == {1, 2}
NoObject == 0

FreezeInit ==
  /\ heap = <<>>
  /\ inputCache = NoObject
  /\ basePrepared = NoObject
  /\ holding = [c \in Holders |-> NoObject]
  /\ lastDelta = [from |-> NoObject, to |-> NoObject]
  /\ lastWrite = [obj |-> NoObject, applied |-> FALSE]

\* The orchestrator and the metrics collector after construction.
MetricsInit ==
  /\ tierLatencies = [preProcessor |-> << >>, pureEngine |-> << >>,
                      postProcessor |-> << >>]
  /\ recentSamples = << >>
  /\ irregular = 0

\* Inputs of getOrCalculate; a result records the input it was calculated
\* from and the proposal it was calculated for.
CalcInputs == {"i1", "i2", "i3"}
NoCalc == [proposalId |-> "none", input |-> "none"]

\* The state manager after construction.
ManagerInit ==
  /\ proposalCache = [a \in Proposals |-> NoCalc]
  /\ idempotencyCache = [i \in CalcInputs |-> NoCalc]
  /\ returned = [proposalId |-> "none", input |-> "none", result |-> NoCalc]

\* The components of the three stages before any request.
StagesInit ==
  /\ LoopInit /\ PrepInit /\ LockInit /\ OrchInit /\ FetchInit /\ FreezeInit
  /\ MetricsInit /\ ManagerInit

\* The commit stage and the publisher before any request.
CoreInit ==
  /\ callPc = [p \in Calls |-> "idle"]
  /\ callReq = [p \in Calls |-> [proposalId |-> "none", checksum |-> "none"]]
  /\ response = [p \in Calls |-> NoResult]
  /\ hit = [p \in Calls |-> FALSE]
  /\ txState = [p \in Calls |-> "none"]
  /\ txBuf = [p \in Calls |-> << >>]
  /\ resultWrites = [p \in Calls |-> 0]
  /\ webhookCalls = [p \in Calls |-> "none"]
  /\ priorDone = [p \in Calls |-> {}]
  /\ idemCache = [c \in Checksums |-> NoResult]
  /\ resultCache = {}
  /\ calculation_results = [a \in Proposals |-> "none"]
  /\ event_outbox = << >>
  /\ nextId = 1
  /\ commitOrder = << >>
  /\ isProcessing = [w \in Publishers |-> FALSE]
  /\ pubPc = [w \in Publishers |-> "idle"]
  /\ batch = [w \in Publishers |-> << >>]
  /\ cur = [w \in Publishers |-> NoEvent]
  /\ emitted = << >>
  /\ now = 0
  /\ commitFaults = TRUE
  /\ pubFaults = 0

NoInput == [lineItems |-> << >>, modifiers |-> << >>, dependencies |-> << >>]

\* No call of the pure engine yet.
EngineInit ==
  /\ input = NoInput
  /\ results = {}

Keys == {"k1", "k2", "k3"}
NoTtl == 0
NeverStored == [at |-> -1, ttl |-> NoTtl]
NoLookup == [key |-> "none", hit |-> FALSE, age |-> 0, ttl |-> NoTtl]

\* new CacheManager(options)
CacheInit ==
  /\ cache = {}
  /\ ttlMap = [k \in Keys |-> NoTtl]
  /\ accessOrder = << >>
  /\ clock = 0
  /\ storedAt = [k \in Keys |-> NeverStored]
  /\ lookup = NoLookup

ExtInit == StagesInit /\ EngineInit /\ CacheInit

Init == CoreInit /\ ExtInit

\* An external operation of the commit stage (database statement, cache call,
\* webhook call) either succeeds or throws.
Outcomes == IF commitFaults THEN {TRUE, FALSE} ELSE {TRUE}

\* An external operation of the publisher (database statement, broker call)
\* either succeeds or throws; the number of injected failures is bounded.
PubOutcomes == IF pubFaults > 0 THEN {TRUE, FALSE} ELSE {TRUE}
Charge(ok) == pubFaults' = IF ok THEN pubFaults ELSE pubFaults - 1


\* ------------------------------------------------- the database contract
\* ORDER BY created_at: created_at follows the serial id of the row.
RECURSIVE IdsInOrder(_)
IdsInOrder(S) ==
  IF S = {} THEN << >>
  ELSE LET m == CHOOSE x \in S : \A y \in S : x <= y
       IN <<m>> \o IdsInOrder(S \ {m})

\* UPDATE event_outbox SET ... WHERE id = $n
UpdateRow(table, id, row) ==
  IF id \in DOMAIN table THEN [table EXCEPT ![id] = row] ELSE table

\* Row created by the INSERT of publishWithinTransaction: status 'PENDING';
\* retry_count, max_retries, next_retry_at take the column defaults.
NewOutboxRow(id, req, p) ==
  [id |-> id, aggregate_id |-> req.proposalId, checksum |-> req.checksum,
   by |-> p, status |-> "PENDING", retry_count |-> 0,
   max_retries |-> MaxRetries, has_retry_at |-> FALSE, next_retry_at |-> 0,
   error |-> ""]

\* COMMIT makes the rows buffered by the transaction visible.
TableAfterCommit(table, buf) == table @@ buf

\* ROLLBACK discards them.
TableAfterRollbackKeeps(table, buf) == table @@ buf

TableAfterRollback(table, buf) == table

\* --------------------------------------------- PostProcessor.process
\* The result handed to the commit stage; process() fills in proposalId.
ResultOf(req) == [checksum |-> req.checksum, proposalId |-> req.proposalId]

\* IdempotencyChecker.check: the stored result, or NoResult (null).
CheckAlwaysMisses(key) == NoResult

Check(key) == idemCache[key]

\* process() is called with the result of the pure stage. STEP 1 runs at
\* once: IdempotencyChecker.check reads the in-memory Map synchronously; on a
\* hit the stored result is returned with no writes, events or webhooks.
Submit(p) ==
  /\ callPc[p] = "idle"
  /\ \E a \in Proposals, c \in Checksums :
       LET req == [proposalId |-> a, checksum |-> c]
           existing == Check(c)
       IN /\ callReq' = [callReq EXCEPT ![p] = req]
          /\ IF existing # NoResult
               THEN /\ response' = [response EXCEPT ![p] = existing]
                    /\ hit' = [hit EXCEPT ![p] = TRUE]
                    /\ callPc' = [callPc EXCEPT ![p] = "done"]
               ELSE /\ callPc' = [callPc EXCEPT ![p] = "begin"]
                    /\ UNCHANGED <<response, hit>>
  /\ priorDone' = [priorDone EXCEPT ![p] =
                     {q \in Calls : callPc[q] = "done"}]
  /\ UNCHANGED <<txState, txBuf, resultWrites, webhookCalls,
                 idemCache, resultCache, calculation_results, event_outbox,
                 nextId, commitOrder, now, commitFaults, pubFaults>>
  /\ UNCHANGED <<pubVars, extVars>>

\* TransactionManager.executeInTransaction: db.beginTransaction() is outside
\* the try block, so a failure propagates without a rollback.
BeginTransaction(p) ==
  /\ callPc[p] = "begin"
  /\ \E ok \in Outcomes :
       /\ IF ok
            THEN /\ txState' = [txState EXCEPT ![p] = "open"]
                 /\ callPc' = [callPc EXCEPT ![p] = "persist"]
                 /\ UNCHANGED response
            ELSE /\ response' = [response EXCEPT ![p] = ErrorResponse]
                 /\ callPc' = [callPc EXCEPT ![p] = "failed"]
                 /\ UNCHANGED txState
  /\ UNCHANGED <<callReq, hit, txBuf, resultWrites, webhookCalls, priorDone,
                 idemCache, resultCache, calculation_results, event_outbox,
                 nextId, commitOrder, now, commitFaults, pubFaults>>
  /\ UNCHANGED <<pubVars, extVars>>

\* STEP 3: DataPersister.persist runs its upsert on this.db, the pool the
\* persister was constructed with, not on tx: the statement is autocommitted.
Persist(p) ==
  /\ callPc[p] = "persist"
  /\ \E ok \in Outcomes :
       /\ IF ok
            THEN /\ calculation_results' =
                      [calculation_results EXCEPT ![callReq[p].proposalId] =
                         callReq[p].checksum]
                 /\ resultWrites' = [resultWrites EXCEPT ![p] = @ + 1]
                 /\ callPc' = [callPc EXCEPT ![p] = "outbox"]
            ELSE /\ callPc' = [callPc EXCEPT ![p] = "rollback"]
                 /\ UNCHANGED <<calculation_results, resultWrites>>
  /\ UNCHANGED <<callReq, response, hit, txState, txBuf, webhookCalls,
                 priorDone, idemCache, resultCache, event_outbox, nextId,
                 commitOrder, now, commitFaults, pubFaults>>
  /\ UNCHANGED <<pubVars, extVars>>

\* STEP 4: EventOutbox.publishWithinTransaction issues its INSERT on tx, the
\* transaction object ("pool" would autocommit it).
OutboxInsertViaPool == "pool"

OutboxInsertVia == "tx"

PublishWithinTransaction(p) ==
  /\ callPc[p] = "outbox"
  /\ \E ok \in Outcomes :
       IF ok
         THEN LET row == nextId :> NewOutboxRow(nextId, callReq[p], p) IN
              /\ IF OutboxInsertVia = "tx"
                   THEN /\ txBuf' = [txBuf EXCEPT ![p] = @ @@ row]
                        /\ UNCHANGED <<event_outbox, commitOrder>>
                   ELSE /\ event_outbox' = event_outbox @@ row
                        /\ commitOrder' = Append(commitOrder, nextId)
                        /\ UNCHANGED txBuf
              /\ nextId' = nextId + 1
              /\ callPc' = [callPc EXCEPT ![p] = "cache"]
         ELSE /\ callPc' = [callPc EXCEPT ![p] = "rollback"]
              /\ UNCHANGED <<txBuf, nextId, event_outbox, commitOrder>>
  /\ UNCHANGED <<callReq, response, hit, txState, resultWrites, webhookCalls,
                 priorDone, idemCache, resultCache, calculation_results,
                 now, commitFaults, pubFaults>>
  /\ UNCHANGED <<pubVars, extVars>>

\* STEP 5 and 6: CacheUpdater.update (cache.set keyed by checksum), then the
\* synchronous metrics record.
CacheUpdate(p) ==
  /\ callPc[p] = "cache"
  /\ \E ok \in Outcomes :
       /\ IF ok
            THEN /\ resultCache' = resultCache \cup {callReq[p].checksum}
                 /\ callPc' = [callPc EXCEPT ![p] = "webhook"]
            ELSE /\ callPc' = [callPc EXCEPT ![p] = "rollback"]
                 /\ UNCHANGED resultCache
  /\ UNCHANGED <<callReq, response, hit, txState, txBuf, resultWrites,
                 webhookCalls, priorDone, idemCache, calculation_results,
                 event_outbox, nextId, commitOrder, now, commitFaults, pubFaults>>
  /\ UNCHANGED <<pubVars, extVars>>

\* STEP 7: WebhookTrigger.trigger catches the failure of every call, so the
\* promise PostProcessor awaits never rejects.
TriggerRejectsOnFailure(ok) == ~ok

TriggerRejects(ok) == FALSE

TriggerWebhooks(p) ==
  /\ callPc[p] = "webhook"
  /\ \E ok \in Outcomes :
       /\ webhookCalls' = [webhookCalls EXCEPT ![p] =
                             IF ok THEN "ok" ELSE "failed"]
       /\ callPc' = [callPc EXCEPT ![p] =
                       IF TriggerRejects(ok) THEN "rollback" ELSE "commit"]
  /\ UNCHANGED <<callReq, response, hit, txState, txBuf, resultWrites,
                 priorDone, idemCache, resultCache, calculation_results,
                 event_outbox, nextId, commitOrder, now, commitFaults, pubFaults>>
  /\ UNCHANGED <<pubVars, extVars>>

\* db.commit(): the buffered rows become visible; a failed COMMIT is handled
\* by the catch block like any other error. STEP 8 follows in the same turn of
\* the event loop: IdempotencyChecker.store sets the in-memory Map, and the
\* result is returned.
Commit(p) ==
  /\ callPc[p] = "commit"
  /\ \E ok \in Outcomes :
       /\ IF ok
            THEN /\ event_outbox' = TableAfterCommit(event_outbox, txBuf[p])
                 /\ commitOrder' = commitOrder \o IdsInOrder(DOMAIN txBuf[p])
                 /\ txBuf' = [txBuf EXCEPT ![p] = << >>]
                 /\ txState' = [txState EXCEPT ![p] = "committed"]
                 /\ idemCache' = [idemCache EXCEPT ![callReq[p].checksum] =
                                    ResultOf(callReq[p])]
                 /\ response' = [response EXCEPT ![p] = ResultOf(callReq[p])]
                 /\ callPc' = [callPc EXCEPT ![p] = "done"]
            ELSE /\ callPc' = [callPc EXCEPT ![p] = "rollback"]
                 /\ UNCHANGED <<event_outbox, commitOrder, txBuf, txState,
                                idemCache, response>>
  /\ UNCHANGED <<callReq, hit, resultWrites, webhookCalls,
                 priorDone, resultCache, calculation_results,
                 nextId, now, commitFaults, pubFaults>>
  /\ UNCHANGED <<pubVars, extVars>>

\* catch block of executeInTransaction: db.rollback(), then rethrow; the catch
\* block of process() records the error and rethrows to the caller.
Rollback(p) ==
  /\ callPc[p] = "rollback"
  /\ event_outbox' = TableAfterRollback(event_outbox, txBuf[p])
  /\ txBuf' = [txBuf EXCEPT ![p] = << >>]
  /\ txState' = [txState EXCEPT ![p] = "rolledback"]
  /\ response' = [response EXCEPT ![p] = ErrorResponse]
  /\ callPc' = [callPc EXCEPT ![p] = "failed"]
  /\ UNCHANGED <<callReq, hit, resultWrites, webhookCalls, priorDone,
                 idemCache, resultCache, calculation_results, nextId,
                 commitOrder, now, commitFaults, pubFaults>>
  /\ UNCHANGED <<pubVars, extVars>>

\* ------------------------------------------------------- EventOutbox
\* WHERE clause of fetchPendingEvents at time t.
SelectableAnyStatus(r, t) == ~r.has_retry_at \/ r.next_retry_at <= t

\* A claim query that leaves out the rows found in PROCESSING.
SelectablePendingOnly(r, t) ==
  /\ r.status = "PENDING"
  /\ (~r.has_retry_at \/ r.next_retry_at <= t)

Selectable(r, t) ==
  /\ r.status \in {"PENDING", "PROCESSING"}
  /\ (~r.has_retry_at \/ r.next_retry_at <= t)

\* SELECT ... ORDER BY created_at LIMIT 100: the event objects of one batch.
FetchPendingEvents(table, t) ==
  LET ids == IdsInOrder({id \in DOMAIN table : Selectable(table[id], t)})
      n == IF Len(ids) < BatchLimit THEN Len(ids) ELSE BatchLimit
  IN [i \in 1..n |-> table[ids[i]]]

\* processEvent: "Check if max retries exceeded".
MaxRetriesReached(ev) == ev.retry_count >= ev.max_retries

\* handleEventFailure: Math.pow(2, newRetryCount) seconds.
BackoffFromOldCount(newRetryCount) == 2 ^ (newRetryCount - 1)

BackoffSeconds(newRetryCount) == 2 ^ newRetryCount

\* The UPDATE of handleEventFailure: retry_count is incremented in the table;
\* next_retry_at is computed from the event object read by the fetch.
FailureUpdate(row, ev, t) ==
  [row EXCEPT !.status = "PENDING",
              !.retry_count = @ + 1,
              !.has_retry_at = TRUE,
              !.next_retry_at = t + BackoffSeconds(ev.retry_count + 1),
              !.error = "publish failed"]

\* The UPDATE of moveToDeadLetter.
DeadLetterUpdate(row) ==
  [row EXCEPT !.status = "DEAD_LETTER", !.error = "Max retries exceeded"]

\* The UPDATE of updateEventStatus.
StatusUpdateCompletes(row, status) == [row EXCEPT !.status = "COMPLETED"]

StatusUpdate(row, status) == [row EXCEPT !.status = status]

\* Clock readings: the instants told apart are the present one and those at
\* which a row falls due.
Instants ==
  {now} \cup {event_outbox[id].next_retry_at :
                id \in {i \in DOMAIN event_outbox :
                          /\ event_outbox[i].has_retry_at
                          /\ event_outbox[i].next_retry_at > now}}

\* A run that ends without resetting isProcessing.
EndRunGuardKept(w) ==
  /\ UNCHANGED isProcessing
  /\ pubPc' = [pubPc EXCEPT ![w] = "idle"]
  /\ batch' = [batch EXCEPT ![w] = << >>]
  /\ cur' = [cur EXCEPT ![w] = NoEvent]

\* finally block of processPendingEvents.
EndRun(w) ==
  /\ isProcessing' = [isProcessing EXCEPT ![w] = FALSE]
  /\ pubPc' = [pubPc EXCEPT ![w] = "idle"]
  /\ batch' = [batch EXCEPT ![w] = << >>]
  /\ cur' = [cur EXCEPT ![w] = NoEvent]

\* First statement processEvent awaits for the event ev.
FirstStep(ev) ==
  IF ev.status = "COMPLETED" THEN "skip"
  ELSE IF MaxRetriesReached(ev) THEN "deadLetter"
  ELSE "markProcessing"

\* Events at the head of the batch that processEvent returns from at once.
RECURSIVE DropCompleted(_)
DropCompleted(events) ==
  IF events # << >> /\ FirstStep(Head(events)) = "skip"
    THEN DropCompleted(Tail(events))
    ELSE events

\* for (const event of events) await this.processEvent(event): the code runs
\* on to the first statement awaited for the next event, or to the end of the
\* run.
Continue(w, events) ==
  LET rest == DropCompleted(events) IN
    IF rest = << >>
      THEN EndRun(w)
      ELSE /\ cur' = [cur EXCEPT ![w] = Head(rest)]
           /\ batch' = [batch EXCEPT ![w] = Tail(rest)]
           /\ pubPc' = [pubPc EXCEPT ![w] = FirstStep(Head(rest))]
           /\ UNCHANGED isProcessing

\* The interval timer fires processPendingEvents: a run that finds
\* isProcessing set returns at once; otherwise the claim query is issued.
ProcessPendingEvents(w) ==
  /\ pubPc[w] = "idle"
  /\ ~isProcessing[w]
  /\ isProcessing' = [isProcessing EXCEPT ![w] = TRUE]
  /\ pubPc' = [pubPc EXCEPT ![w] = "fetch"]
  /\ UNCHANGED <<batch, cur, emitted, event_outbox, now, pubFaults>>
  /\ UNCHANGED <<callVars, commitFaults, extVars>>

\* The claim query runs at the database's CURRENT_TIMESTAMP.
Fetch(w) ==
  /\ pubPc[w] = "fetch"
  /\ \E t \in Instants :
       /\ now' = t
       /\ \E ok \in PubOutcomes :
            /\ Charge(ok)
            /\ IF ok
                 THEN Continue(w, FetchPendingEvents(event_outbox, t))
                 ELSE EndRun(w)
  /\ UNCHANGED <<emitted, event_outbox>>
  /\ UNCHANGED <<callVars, commitFaults, extVars>>

\* moveToDeadLetter is outside the try block: a failure ends the run.
MoveToDeadLetter(w) ==
  /\ pubPc[w] = "deadLetter"
  /\ \E ok \in PubOutcomes :
       /\ Charge(ok)
       /\ IF ok
            THEN /\ event_outbox' = UpdateRow(event_outbox, cur[w].id,
                                      DeadLetterUpdate(event_outbox[cur[w].id]))
                 /\ Continue(w, batch[w])
            ELSE /\ EndRun(w)
                 /\ UNCHANGED event_outbox
  /\ UNCHANGED <<emitted, now>>
  /\ UNCHANGED <<callVars, commitFaults, extVars>>

\* updateEventStatus(event.id, 'PROCESSING')
MarkProcessing(w) ==
  /\ pubPc[w] = "markProcessing"
  /\ \E ok \in PubOutcomes :
       /\ Charge(ok)
       /\ IF ok
            THEN /\ event_outbox' = UpdateRow(event_outbox, cur[w].id,
                        StatusUpdate(event_outbox[cur[w].id], "PROCESSING"))
                 /\ pubPc' = [pubPc EXCEPT ![w] = "emit"]
            ELSE /\ pubPc' = [pubPc EXCEPT ![w] = "handleFailure"]
                 /\ UNCHANGED event_outbox
  /\ UNCHANGED <<isProcessing, batch, cur, emitted, now>>
  /\ UNCHANGED <<callVars, commitFaults, extVars>>

\* eventBus.emit(event.event_type, event.payload)
Emit(w) ==
  /\ pubPc[w] = "emit"
  /\ Len(emitted) < MaxEmitted
  /\ \E ok \in PubOutcomes :
       /\ Charge(ok)
       /\ IF ok
            THEN /\ emitted' = Append(emitted, cur[w].id)
                 /\ pubPc' = [pubPc EXCEPT ![w] = "markCompleted"]
            ELSE /\ pubPc' = [pubPc EXCEPT ![w] = "handleFailure"]
                 /\ UNCHANGED emitted
  /\ UNCHANGED <<isProcessing, batch, cur, event_outbox, now>>
  /\ UNCHANGED <<callVars, commitFaults, extVars>>

\* updateEventStatus(event.id, 'COMPLETED')
MarkCompleted(w) ==
  /\ pubPc[w] = "markCompleted"
  /\ \E ok \in PubOutcomes :
       /\ Charge(ok)
       /\ IF ok
            THEN /\ event_outbox' = UpdateRow(event_outbox, cur[w].id,
                        StatusUpdate(event_outbox[cur[w].id], "COMPLETED"))
                 /\ Continue(w, batch[w])
            ELSE /\ pubPc' = [pubPc EXCEPT ![w] = "handleFailure"]
                 /\ UNCHANGED <<event_outbox, isProcessing, batch, cur>>
  /\ UNCHANGED <<emitted, now>>
  /\ UNCHANGED <<callVars, commitFaults, extVars>>

\* catch block of processEvent: handleEventFailure reads Date.now() and
\* updates the row; its own failure ends the run.
HandleEventFailure(w) ==
  /\ pubPc[w] = "handleFailure"
  /\ \E t \in Instants :
       /\ now' = t
       /\ \E ok \in PubOutcomes :
            /\ Charge(ok)
            /\ IF ok
                 THEN /\ event_outbox' = UpdateRow(event_outbox, cur[w].id,
                           FailureUpdate(event_outbox[cur[w].id], cur[w], t))
                      /\ Continue(w, batch[w])
                 ELSE /\ EndRun(w)
                      /\ UNCHANGED event_outbox
  /\ UNCHANGED emitted
  /\ UNCHANGED <<callVars, commitFaults, extVars>>

Process(p) ==
  \/ Submit(p)
  \/ BeginTransaction(p)
  \/ Persist(p)
  \/ PublishWithinTransaction(p)
  \/ CacheUpdate(p)
  \/ TriggerWebhooks(p)
  \/ Commit(p)
  \/ Rollback(p)

Publisher(w) ==
  \/ ProcessPendingEvents(w)
  \/ Fetch(w)
  \/ MoveToDeadLetter(w)
  \/ MarkProcessing(w)
  \/ Emit(w)
  \/ MarkCompleted(w)
  \/ HandleEventFailure(w)

\* The publisher while the database and the broker answer.
Delivery(w) ==
  \/ ProcessPendingEvents(w)
  \/ Fetch(w)
  \/ MarkProcessing(w)
  \/ Emit(w)
  \/ MarkCompleted(w)

\* Commit-stage invocations that meet no failure.
Commits(p) ==
  \/ Submit(p)
  \/ BeginTransaction(p)
  \/ Persist(p)
  \/ PublishWithinTransaction(p)
  \/ CacheUpdate(p)
  \/ TriggerWebhooks(p)
  \/ Commit(p)

\* One process: concurrent commit-stage invocations whose operations may
\* fail, and its single EventOutbox draining what they commit.
Next ==
  \/ \E p \in Calls : Process(p)
  \/ Delivery("w1")

Spec == Init /\ [][Next]_vars

\* The same process when the broker and the publisher's statements may fail.
InitOutbox ==
  /\ callPc = [p \in Calls |-> "idle"]
  /\ callReq = [p \in Calls |-> [proposalId |-> "none", checksum |-> "none"]]
  /\ response = [p \in Calls |-> NoResult]
  /\ hit = [p \in Calls |-> FALSE]
  /\ txState = [p \in Calls |-> "none"]
  /\ txBuf = [p \in Calls |-> << >>]
  /\ resultWrites = [p \in Calls |-> 0]
  /\ webhookCalls = [p \in Calls |-> "none"]
  /\ priorDone = [p \in Calls |-> {}]
  /\ idemCache = [c \in Checksums |-> NoResult]
  /\ resultCache = {}
  /\ calculation_results = [a \in Proposals |-> "none"]
  /\ event_outbox = << >>
  /\ nextId = 1
  /\ commitOrder = << >>
  /\ isProcessing = [w \in Publishers |-> FALSE]
  /\ pubPc = [w \in Publishers |-> "idle"]
  /\ batch = [w \in Publishers |-> << >>]
  /\ cur = [w \in Publishers |-> NoEvent]
  /\ emitted = << >>
  /\ now = 0
  /\ commitFaults = FALSE
  /\ pubFaults = MaxFaults
  /\ ExtInit

NextOutbox ==
  \/ \E p \in Calls : Commits(p)
  \/ Publisher("w1")

SpecOutbox == InitOutbox /\ [][NextOutbox]_vars

\* ----------------------------------------------------------------------
\* Properties of the commit stage
\* ----------------------------------------------------------------------
RowsBy(p) == {id \in DOMAIN event_outbox : event_outbox[id].by = p}

\* C1: when a request is submitted again after an earlier submission of the
\* same request (same proposal, same checksum) went through the commit and
\* returned, the second invocation finds the checksum in the idempotency
\* store: it returns the first response, performs no result write, inserts no
\* outbox row and calls no webhook, so the two submissions together make one
\* result write and one outbox row.
C1_IdempotentResubmission ==
  \A p \in Calls : \A q \in Calls :
    (p \in priorDone[q] /\ callReq[p] = callReq[q] /\ ~hit[p])
      => /\ callPc[q] = "done" /\ hit[q]
         /\ response[q] = response[p]
         /\ resultWrites[q] = 0 /\ resultWrites[p] = 1
         /\ txState[q] = "none" /\ txBuf[q] = << >>
         /\ webhookCalls[q] = "none"
         /\ RowsBy(q) = {}
         /\ Cardinality(RowsBy(p)) = 1

C1_Witness ==
  \E p \in Calls : \E q \in Calls :
    /\ p \in priorDone[q] /\ callReq[p] = callReq[q] /\ ~hit[p]
    /\ callPc[q] = "done" /\ response[q] = ResultOf(callReq[q])

\* C2: every row emitted to the event bus, and every row marked COMPLETED, was
\* inserted by an invocation whose transaction committed; no row of a
\* rolled-back invocation is ever visible to the publisher.
C2_PublishedOnlyIfCommitted ==
  /\ \A i \in 1..Len(emitted) :
       /\ emitted[i] \in DOMAIN event_outbox
       /\ txState[event_outbox[emitted[i]].by] = "committed"
  /\ \A id \in DOMAIN event_outbox :
       event_outbox[id].status \in {"PROCESSING", "COMPLETED"}
         => txState[event_outbox[id].by] = "committed"
  /\ \A p \in Calls : txState[p] = "rolledback" => RowsBy(p) = {}

\* Two rows were inserted, one invocation rolled back, the other row was
\* emitted and completed.
C2_Witness ==
  /\ nextId = 3
  /\ \E p \in Calls : txState[p] = "rolledback"
  /\ \E id \in DOMAIN event_outbox :
       event_outbox[id].status = "COMPLETED" /\ Len(emitted) = 1

\* C3: the upsert into calculation_results and the insertion of the outbox
\* row are one transaction: once an invocation has ended, either both its
\* result write and its outbox row are durable or neither is.
C3_ResultAndOutboxAtomic ==
  \A p \in Calls :
    (callPc[p] \in {"done", "failed"} /\ ~hit[p])
      => (resultWrites[p] = 1 <=> RowsBy(p) # {})

InTransaction(p) == txState[p] = "open"

LastCommittedFor(a) ==
  LET ids == {i \in 1..Len(commitOrder) :
                event_outbox[commitOrder[i]].aggregate_id = a}
  IN event_outbox[commitOrder[CHOOSE i \in ids : \A j \in ids : j <= i]]

C6_CommitsSerialisedPerProposal ==
  /\ \A p \in Calls : \A q \in Calls :
       (p # q /\ callReq[p].proposalId = callReq[q].proposalId)
         => ~(InTransaction(p) /\ InTransaction(q))
  /\ \A a \in Proposals :
       ((\A p \in Calls : callPc[p] = "done" /\ ~hit[p]
                            /\ callReq[p].proposalId = a))
         => calculation_results[a] = LastCommittedFor(a).checksum

\* ----------------------------------------------------------------------
\* Properties of the outbox publisher
\* ----------------------------------------------------------------------
SameAggregate(x, y) ==
  event_outbox[x].aggregate_id = event_outbox[y].aggregate_id

\* C5: for one proposalId, events reach the event bus in the order in which
\* their rows were committed.  The statement is restricted to executions in
\* which the rows were committed in the order of their insertion, so that
\* only the publisher decides the order of emission.
C5_EmissionFollowsCommitOrder ==
  commitOrder = IdsInOrder(DOMAIN event_outbox)
    => \A i \in 1..Len(emitted) : \A j \in 1..Len(emitted) :
         (i < j /\ emitted[i] # emitted[j]
                /\ SameAggregate(emitted[i], emitted[j]))
           => emitted[i] < emitted[j]

\* C7: a row appears in the table as PENDING; its status changes only along
\* PENDING -> PROCESSING -> COMPLETED, back from PROCESSING to PENDING when a
\* publish attempt failed, or to DEAD_LETTER; it becomes COMPLETED only from
\* PROCESSING and after it was emitted; COMPLETED and DEAD_LETTER rows never
\* change status again.
StatusMoves ==
  {<<"PENDING", "PROCESSING">>, <<"PROCESSING", "COMPLETED">>,
   <<"PROCESSING", "PENDING">>, <<"PENDING", "DEAD_LETTER">>,
   <<"PROCESSING", "DEAD_LETTER">>}

WasEmitted(id) == \E i \in 1..Len(emitted) : emitted[i] = id

C8_DeadLetterOnlyAfterExceeding ==
  \A id \in DOMAIN event_outbox :
    event_outbox[id].status = "DEAD_LETTER"
      => event_outbox[id].retry_count > event_outbox[id].max_retries

\* C9: once a row is DEAD_LETTER no claim query returns it, the publisher
\* never holds it as the event being processed, and it is never emitted.
BatchIds(w) == {batch[w][i].id : i \in 1..Len(batch[w])}

FailureRecorded(w) ==
  /\ pubPc[w] = "handleFailure" /\ pubPc'[w] # "handleFailure"
  /\ pubFaults' = pubFaults

Claimed(w) ==
  /\ pubPc[w] = "fetch" /\ pubPc'[w] # "fetch" /\ cur'[w] # NoEvent

C10_RetryBackoff ==
  [][\A w \in Publishers :
       /\ FailureRecorded(w)
            => LET old == event_outbox[cur[w].id]
                   new == event_outbox'[cur[w].id]
               IN /\ new.retry_count = old.retry_count + 1
                  /\ new.error # ""
                  /\ new.has_retry_at
                  /\ new.next_retry_at = now' + 2 ^ new.retry_count
       /\ Claimed(w)
            => \A id \in {cur'[w].id} \cup BatchIds(w)' :
                 event_outbox[id].has_retry_at
                   => event_outbox[id].next_retry_at <= now']_vars

\* A row that failed once is claimed again, at or after its next_retry_at.
C10_Witness ==
  /\ pubPc["w1"] = "markProcessing"
  /\ event_outbox[cur["w1"].id].retry_count = 1
  /\ event_outbox[cur["w1"].id].next_retry_at = 2
  /\ now >= 2

\* ----------------------------------------------------------------------
\* The interval timer and the re-entrancy guard of processPendingEvents
\* ----------------------------------------------------------------------
\* What the timer and its invocations leave alone.
loopFrame == <<callVars, pubPc, batch, cur, emitted, event_outbox, now,
               commitFaults, pubFaults, prepVars, lockVars, orchVars,
               fetchVars, freezeVars,
               engineVars,
               cacheVars,
               metricsVars,
               managerVars>>

\* if (this.isProcessing) return;
BusyNever(w) == FALSE

Busy(w) == isProcessing[w]

\* if (this.processingInterval) return;
AlreadyStartedNever == FALSE

AlreadyStarted == processingInterval

\* startProcessing: registers an interval unless one is registered.
StartProcessing ==
  /\ startCalls < MaxStartCalls
  /\ startCalls' = startCalls + 1
  /\ IF AlreadyStarted
       THEN UNCHANGED <<processingInterval, timers>>
       ELSE /\ processingInterval' = TRUE
            /\ timers' = timers + 1
  /\ UNCHANGED <<fired, guarded, runPc, runLeft, isProcessing>>
  /\ UNCHANGED loopFrame

\* stopProcessing: clearInterval; invocations in progress run on.
StopProcessing ==
  /\ processingInterval
  /\ processingInterval' = FALSE
  /\ timers' = timers - 1
  /\ UNCHANGED <<startCalls, fired, guarded, runPc, runLeft, isProcessing>>
  /\ UNCHANGED loopFrame

\* finally { this.isProcessing = false }
RunEnds(r) ==
  /\ isProcessing' = [isProcessing EXCEPT !["w1"] = FALSE]
  /\ runPc' = [runPc EXCEPT ![r] = "idle"]
  /\ runLeft' = [runLeft EXCEPT ![r] = 0]

\* The timer calls processPendingEvents: the test of isProcessing and its
\* assignment run without an await between them.
TimerFires(r) ==
  /\ timers > 0
  /\ fired < MaxFirings
  /\ runPc[r] = "idle"
  /\ fired' = fired + 1
  /\ IF Busy("w1")
       THEN /\ guarded' = guarded + 1
            /\ UNCHANGED <<isProcessing, runPc>>
       ELSE /\ isProcessing' = [isProcessing EXCEPT !["w1"] = TRUE]
            /\ runPc' = [runPc EXCEPT ![r] = "fetch"]
            /\ UNCHANGED guarded
  /\ UNCHANGED <<processingInterval, timers, startCalls, runLeft>>
  /\ UNCHANGED loopFrame

\* await this.fetchPendingEvents(): a batch of n events, or an error.
RunFetch(r) ==
  /\ runPc[r] = "fetch"
  /\ \/ \E n \in 1..MaxBatch :
          /\ runLeft' = [runLeft EXCEPT ![r] = n]
          /\ runPc' = [runPc EXCEPT ![r] = "process"]
          /\ UNCHANGED isProcessing
     \/ RunEnds(r)
  /\ UNCHANGED <<processingInterval, timers, startCalls, fired, guarded>>
  /\ UNCHANGED loopFrame

\* await this.processEvent(event): returns, or throws out of the loop.
RunProcessEvent(r) ==
  /\ runPc[r] = "process"
  /\ \/ /\ runLeft[r] > 1
        /\ runLeft' = [runLeft EXCEPT ![r] = @ - 1]
        /\ UNCHANGED <<runPc, isProcessing>>
     \/ RunEnds(r)
  /\ UNCHANGED <<processingInterval, timers, startCalls, fired, guarded>>
  /\ UNCHANGED loopFrame

NextLoop ==
  \/ StartProcessing
  \/ StopProcessing
  \/ \E r \in Runs : TimerFires(r) \/ RunFetch(r) \/ RunProcessEvent(r)

SpecLoop == Init /\ [][NextLoop]_vars

ActiveRuns == {r \in Runs : runPc[r] # "idle"}

\* C11: at most one invocation of processPendingEvents is past the
\* isProcessing test at any time, and at most one interval is registered,
\* whatever the timer does while a run is in progress and however often
\* startProcessing is called.
C11_SingleActiveLoop ==
  /\ Cardinality(ActiveRuns) <= 1
  /\ timers <= 1
  /\ isProcessing["w1"] <=> ActiveRuns # {}

\* startProcessing was called again, the timer fired during a run and that
\* invocation returned at the test, while the run is still in progress.
C11_Witness ==
  /\ startCalls >= 2
  /\ guarded >= 1
  /\ \E r \in Runs : runPc[r] = "process"

\* ----------------------------------------------------------------------
\* Two publishers (two processes) draining one event_outbox table
\* ----------------------------------------------------------------------
InitPublishers ==
  /\ callPc = [p \in Calls |-> "idle"]
  /\ callReq = [p \in Calls |-> [proposalId |-> "none", checksum |-> "none"]]
  /\ response = [p \in Calls |-> NoResult]
  /\ hit = [p \in Calls |-> FALSE]
  /\ txState = [p \in Calls |-> "none"]
  /\ txBuf = [p \in Calls |-> << >>]
  /\ resultWrites = [p \in Calls |-> 0]
  /\ webhookCalls = [p \in Calls |-> "none"]
  /\ priorDone = [p \in Calls |-> {}]
  /\ idemCache = [c \in Checksums |-> NoResult]
  /\ resultCache = {}
  /\ calculation_results = [a \in Proposals |-> "none"]
  /\ event_outbox = << >>
  /\ nextId = 1
  /\ commitOrder = << >>
  /\ isProcessing = [w \in Publishers |-> FALSE]
  /\ pubPc = [w \in Publishers |-> "idle"]
  /\ batch = [w \in Publishers |-> << >>]
  /\ cur = [w \in Publishers |-> NoEvent]
  /\ emitted = << >>
  /\ now = 0
  /\ commitFaults = FALSE
  /\ pubFaults = 0
  /\ ExtInit

\* The claim query runs through dbPool.query: it is a statement of its own,
\* so the row locks of FOR UPDATE SKIP LOCKED end with it, before the batch
\* is returned.
NextPublishers ==
  \/ \E p \in Calls : Commits(p)
  \/ \E w \in Publishers : Delivery(w)

SpecPublishers == InitPublishers /\ [][NextPublishers]_vars

\* Rows a publisher has fetched and not finished with.
HeldBy(w) ==
  BatchIds(w) \cup (IF cur[w] = NoEvent THEN {} ELSE {cur[w].id})

\* C12: a batch holds at most 100 rows; a row one publisher has claimed and
\* is still publishing is not claimed by another publisher.
C12_ExclusiveClaim ==
  /\ \A w \in Publishers : Cardinality(HeldBy(w)) <= BatchLimit
  /\ \A v \in Publishers : \A w \in Publishers :
       v # w => HeldBy(v) \cap HeldBy(w) = {}

\* ----------------------------------------------------------------------
\* Preparation: request coalescing in PreProcessor.process
\* ----------------------------------------------------------------------
prepFrame == <<callVars, pubVars, event_outbox, now, commitFaults, pubFaults,
               loopVars, lockVars, orchVars, fetchVars, freezeVars,
               engineVars,
               cacheVars,
               metricsVars,
               managerVars>>

\* this.inFlight.has(coalescingKey)
InFlightHasNever(a) == FALSE

InFlightHas(a) == inFlight[a] # 0

\* .finally(() => this.inFlight.delete(coalescingKey))
InFlightAfterKeptOnError(a, outcome) ==
  IF outcome = "error" THEN inFlight ELSE [inFlight EXCEPT ![a] = 0]

InFlightAfter(a, outcome) == [inFlight EXCEPT ![a] = 0]

\* The promise of call r's _doProcess settles: the finally callback runs and
\* every call that was handed this promise observes the outcome.
Settle(r, outcome) ==
  /\ inFlight' = InFlightAfter(prepReq[r], outcome)
  /\ prepResult' = [q \in PrepCalls |->
                      IF prepOwner[q] = r /\ prepPc[q] # "done"
                        THEN outcome ELSE prepResult[q]]
  /\ prepPc' = [q \in PrepCalls |->
                  IF prepOwner[q] = r THEN "done" ELSE prepPc[q]]

\* generateCacheKeyFromRequest: the hash of the request without its changes.
GenerateCacheKeyFromRequest(r) == <<prepReq[r], prepBody[r]>>

\* process(request): hand out the promise in flight for the proposalId, or
\* start _doProcess and register its promise.
PrepProcess(r) ==
  /\ prepPc[r] = "idle"
  /\ \E a \in Proposals : \E b \in Bodies :
       /\ prepReq' = [prepReq EXCEPT ![r] = a]
       /\ prepBody' = [prepBody EXCEPT ![r] = b]
       /\ IF InFlightHas(a)
            THEN /\ prepOwner' = [prepOwner EXCEPT ![r] = inFlight[a]]
                 /\ prepPc' = [prepPc EXCEPT ![r] = "waiting"]
                 /\ UNCHANGED inFlight
            ELSE /\ prepOwner' = [prepOwner EXCEPT ![r] = r]
                 /\ prepPc' = [prepPc EXCEPT ![r] = "lookup"]
                 /\ inFlight' = [inFlight EXCEPT ![a] = r]
  /\ UNCHANGED <<prepResult, prepCache, fetchesBy>>
  /\ UNCHANGED prepFrame

\* _doProcess: await this.cacheManager.get(cacheKey)
PrepCacheLookup(r) ==
  /\ prepPc[r] = "lookup"
  /\ \/ /\ GenerateCacheKeyFromRequest(r) \in prepCache
        /\ Settle(r, "cached")
     \/ /\ GenerateCacheKeyFromRequest(r) \notin prepCache
        /\ prepPc' = [prepPc EXCEPT ![r] = "fetch"]
        /\ UNCHANGED <<prepResult, inFlight>>
     \/ Settle(r, "error")
  /\ UNCHANGED <<prepReq, prepBody, prepOwner, prepCache, fetchesBy>>
  /\ UNCHANGED prepFrame

\* _doProcess: await this.dataFetcher.fetchAll(request), then validation.
PrepFetch(r) ==
  /\ prepPc[r] = "fetch"
  /\ fetchesBy' = [fetchesBy EXCEPT ![r] = @ + 1]
  /\ \/ /\ prepPc' = [prepPc EXCEPT ![r] = "store"]
        /\ UNCHANGED <<prepResult, inFlight>>
     \/ Settle(r, "error")
  /\ UNCHANGED <<prepReq, prepBody, prepOwner, prepCache>>
  /\ UNCHANGED prepFrame

\* _doProcess: freeze, await this.cacheManager.set(cacheKey, frozen), return.
PrepStore(r) ==
  /\ prepPc[r] = "store"
  /\ \/ /\ prepCache' = prepCache \cup {GenerateCacheKeyFromRequest(r)}
        /\ Settle(r, "fresh")
     \/ /\ Settle(r, "error")
        /\ UNCHANGED prepCache
  /\ UNCHANGED <<prepReq, prepBody, prepOwner, fetchesBy>>
  /\ UNCHANGED prepFrame

NextPrep ==
  \E r \in PrepCalls :
    PrepProcess(r) \/ PrepCacheLookup(r) \/ PrepFetch(r) \/ PrepStore(r)

SpecPrep == Init /\ [][NextPrep]_vars

Preparing(r) == prepPc[r] \in {"lookup", "fetch", "store"}

Pending(r) == prepPc[r] \in {"lookup", "fetch", "store", "waiting"}

RECURSIVE SumFetches(_)
SumFetches(S) ==
  IF S = {} THEN 0
  ELSE LET r == CHOOSE x \in S : TRUE
       IN fetchesBy[r] + SumFetches(S \ {r})

\* C13: the calls for one proposalId that are pending at the same time have
\* caused at most one data fetch between them, and only one of them runs
\* _doProcess.
C13_OneFetchForConcurrentRequests ==
  \A a \in Proposals :
    LET pending == {r \in PrepCalls : Pending(r) /\ prepReq[r] = a} IN
      /\ SumFetches(pending) <= 1
      /\ Cardinality({r \in pending : Preparing(r)}) <= 1

\* Three calls for one proposalId are pending together after the one fetch.
C13_Witness ==
  \E a \in Proposals :
    /\ \A r \in PrepCalls : Pending(r) /\ prepReq[r] = a
    /\ \E r \in PrepCalls : prepPc[r] = "store" /\ fetchesBy[r] = 1

\* C14: inFlight holds an entry for a proposalId exactly while a _doProcess
\* for it is in progress, the entry names that call, and every call waiting on
\* a shared promise waits on one in progress; when the promise settles, with a
\* result or with an error, the entry is gone.
C14_EntryOnlyWhileInProgress ==
  /\ \A a \in Proposals :
       /\ inFlight[a] # 0 => (Preparing(inFlight[a]) /\ prepReq[inFlight[a]] = a)
       /\ \A r \in PrepCalls :
            (Preparing(r) /\ prepReq[r] = a) => inFlight[a] = r
  /\ \A r \in PrepCalls :
       prepPc[r] = "waiting" => Preparing(prepOwner[r])

\* A preparation ended with an error and a later call for the same
\* proposalId runs a preparation of its own.
C14_Witness ==
  \E r \in PrepCalls : \E q \in PrepCalls :
    /\ r # q /\ prepReq[r] = prepReq[q]
    /\ prepPc[r] = "done" /\ prepResult[r] = "error"
    /\ Preparing(q) /\ inFlight[prepReq[q]] = q

\* ----------------------------------------------------------------------
\* Further properties of the commit stage
\* ----------------------------------------------------------------------
\* C15: a checksum is in the result cache or in the idempotency store only
\* when the transaction of an invocation for that checksum has committed.
C15_CachedOnlyAfterCommit ==
  \A c \in Checksums :
    (c \in resultCache \/ idemCache[c] # NoResult)
      => \E p \in Calls : callReq[p].checksum = c /\ txState[p] = "committed"

\* ----------------------------------------------------------------------
\* CalculationStateManager.calculateWithLock
\* ----------------------------------------------------------------------
lockFrame == <<callVars, pubVars, event_outbox, now, commitFaults, pubFaults,
               loopVars, prepVars, orchVars, fetchVars, freezeVars,
               engineVars,
               cacheVars,
               metricsVars,
               managerVars>>

\* await this.db.getClient(): a client is handed out when one is idle; the
\* call waits otherwise.
TakeClient(c) ==
  /\ poolFree > 0
  /\ poolFree' = poolFree - 1
  /\ clientsHeld' = [clientsHeld EXCEPT ![c] = @ + 1]

\* client.release()
ReleaseClient(c) ==
  /\ poolFree' = poolFree + 1
  /\ clientsHeld' = [clientsHeld EXCEPT ![c] = @ - 1]

\* Step 1 of calculateWithLock: the pure calculation, then the call asks for
\* the lock.
CalculateWithLock(c) ==
  /\ lockPc[c] = "idle"
  /\ \E a \in Proposals : \E k \in Checksums :
       lockReq' = [lockReq EXCEPT ![c] = [proposalId |-> a, key |-> k]]
  /\ lockPc' = [lockPc EXCEPT ![c] = "getClient"]
  /\ UNCHANGED <<lockOutcome, lockHolder, calculations, poolFree, clientsHeld>>
  /\ UNCHANGED lockFrame

\* acquireProposalLock: const client = await this.db.getClient()
AcquireGetClient(c) ==
  /\ lockPc[c] = "getClient"
  /\ \/ /\ TakeClient(c)
        /\ lockPc' = [lockPc EXCEPT ![c] = "acquire"]
        /\ UNCHANGED lockOutcome
     \/ /\ lockOutcome' = [lockOutcome EXCEPT ![c] = "error"]
        /\ lockPc' = [lockPc EXCEPT ![c] = "done"]
        /\ UNCHANGED <<poolFree, clientsHeld>>
  /\ UNCHANGED <<lockReq, lockHolder, calculations>>
  /\ UNCHANGED lockFrame

\* acquireProposalLock: pg_advisory_lock waits while another session holds
\* the lock; when the statement throws, lock stays null and the finally block
\* releases nothing, the client included.
AcquireProposalLock(c) ==
  /\ lockPc[c] = "acquire"
  /\ \/ /\ lockHolder[lockReq[c].proposalId] = 0
        /\ lockHolder' = [lockHolder EXCEPT ![lockReq[c].proposalId] = c]
        /\ lockPc' = [lockPc EXCEPT ![c] = "check"]
        /\ UNCHANGED lockOutcome
     \/ /\ lockOutcome' = [lockOutcome EXCEPT ![c] = "error"]
        /\ lockPc' = [lockPc EXCEPT ![c] = "done"]
        /\ UNCHANGED lockHolder
  /\ UNCHANGED <<lockReq, calculations, poolFree, clientsHeld>>
  /\ UNCHANGED lockFrame

\* getStoredCalculation: the double check under the lock.  this.db.query
\* runs the statement on an idle connection of the pool and gives it back.
GetStoredCalculation(c) ==
  /\ lockPc[c] = "check"
  /\ poolFree > 0
  /\ \/ /\ lockReq[c].key \in calculations
        /\ lockOutcome' = [lockOutcome EXCEPT ![c] = "existing"]
        /\ lockPc' = [lockPc EXCEPT ![c] = "release"]
     \/ /\ lockReq[c].key \notin calculations
        /\ lockPc' = [lockPc EXCEPT ![c] = "persist"]
        /\ UNCHANGED lockOutcome
     \/ /\ lockOutcome' = [lockOutcome EXCEPT ![c] = "error"]
        /\ lockPc' = [lockPc EXCEPT ![c] = "release"]
  /\ UNCHANGED <<lockReq, lockHolder, calculations, poolFree, clientsHeld>>
  /\ UNCHANGED lockFrame

\* persistWithOutbox: const client = await this.db.getClient()
PersistGetClient(c) ==
  /\ lockPc[c] = "persist"
  /\ \/ /\ TakeClient(c)
        /\ lockPc' = [lockPc EXCEPT ![c] = "transaction"]
        /\ UNCHANGED lockOutcome
     \/ /\ lockOutcome' = [lockOutcome EXCEPT ![c] = "error"]
        /\ lockPc' = [lockPc EXCEPT ![c] = "release"]
        /\ UNCHANGED <<poolFree, clientsHeld>>
  /\ UNCHANGED <<lockReq, lockHolder, calculations>>
  /\ UNCHANGED lockFrame

\* persistWithOutbox: BEGIN, both inserts, COMMIT; or ROLLBACK and rethrow;
\* finally client.release().
PersistWithOutbox(c) ==
  /\ lockPc[c] = "transaction"
  /\ \/ /\ calculations' = calculations \cup {lockReq[c].key}
        /\ lockOutcome' = [lockOutcome EXCEPT ![c] = "result"]
     \/ /\ lockOutcome' = [lockOutcome EXCEPT ![c] = "error"]
        /\ UNCHANGED calculations
  /\ ReleaseClient(c)
  /\ lockPc' = [lockPc EXCEPT ![c] = "release"]
  /\ UNCHANGED <<lockReq, lockHolder>>
  /\ UNCHANGED lockFrame

\* What a pg_advisory_unlock statement that threw leaves behind: the lock is
\* gone when the session ended with the failure, and still held when the
\* session survived it; releaseProposalLock returns the client to the pool
\* in both cases.
HolderAfterFailedUnlock(a, c) == {0, c}

\* finally { if (lock) await this.releaseProposalLock(lock) }
ReleaseProposalLock(c) ==
  /\ lockPc[c] = "release"
  /\ \/ /\ lockHolder' = [lockHolder EXCEPT ![lockReq[c].proposalId] = 0]
        /\ UNCHANGED lockOutcome
     \/ /\ \E h \in HolderAfterFailedUnlock(lockReq[c].proposalId, c) :
             lockHolder' = [lockHolder EXCEPT ![lockReq[c].proposalId] = h]
        /\ lockOutcome' = [lockOutcome EXCEPT ![c] = "error"]
  /\ ReleaseClient(c)
  /\ lockPc' = [lockPc EXCEPT ![c] = "done"]
  /\ UNCHANGED <<lockReq, calculations>>
  /\ UNCHANGED lockFrame

LockStep(c) ==
  \/ CalculateWithLock(c)
  \/ AcquireGetClient(c)
  \/ AcquireProposalLock(c)
  \/ GetStoredCalculation(c)
  \/ PersistGetClient(c)
  \/ PersistWithOutbox(c)
  \/ ReleaseProposalLock(c)

NextLock == \E c \in LockCalls : LockStep(c)

SpecLock == Init /\ [][NextLock]_vars

\* C16: once calculateWithLock has returned or thrown, the advisory lock of
\* its proposalId is not held on its behalf.
C16_LockReleasedOnEveryExit ==
  \A c \in LockCalls :
    lockPc[c] = "done" => lockHolder[lockReq[c].proposalId] # c

\* ----------------------------------------------------------------------
\* CalculationOrchestrator.calculate
\* ----------------------------------------------------------------------
orchFrame == <<callVars, pubVars, event_outbox, now, commitFaults, pubFaults,
               loopVars, prepVars, lockVars, fetchVars, freezeVars,
               engineVars,
               cacheVars,
               metricsVars,
               managerVars>>

\* A stage returns or throws.
StageOutcomes == {TRUE, FALSE}

\* The statements of the try block run in sequence: the next one runs only
\* when the stage before it returned.
ProceedsAlways(ok) == TRUE

Proceeds(ok) == ok

\* catch (error) { this.metrics.errors++; ...; throw error }
Fails(o, stage) ==
  /\ errors' = errors + 1
  /\ failedAt' = [failedAt EXCEPT ![o] = stage]
  /\ orchOutcome' = [orchOutcome EXCEPT ![o] = "error"]
  /\ orchPc' = [orchPc EXCEPT ![o] = "done"]

\* calculate: totalRequests++ and the call of preProcessor.process.
OrchCalculate(o) ==
  /\ orchPc[o] = "idle"
  /\ totalRequests' = totalRequests + 1
  /\ stagesRun' = [stagesRun EXCEPT ![o] = <<"prepare">>]
  /\ orchPc' = [orchPc EXCEPT ![o] = "prepare"]
  /\ UNCHANGED <<failedAt, orchOutcome, errors>>
  /\ UNCHANGED orchFrame

\* preProcessor.process settles; on success pureEngine.calculate runs
\* synchronously and, when it returns, postProcessor.process is called.
OrchPrepared(o) ==
  /\ orchPc[o] = "prepare"
  /\ \E prepared \in StageOutcomes : \E computed \in StageOutcomes :
       IF ~Proceeds(prepared)
         THEN /\ Fails(o, "prepare")
              /\ UNCHANGED stagesRun
         ELSE IF ~Proceeds(computed)
           THEN /\ Fails(o, IF prepared THEN "compute" ELSE "prepare")
                /\ stagesRun' = [stagesRun EXCEPT ![o] = Append(@, "compute")]
           ELSE /\ stagesRun' = [stagesRun EXCEPT ![o] =
                                   Append(Append(@, "compute"), "commit")]
                /\ failedAt' = [failedAt EXCEPT ![o] =
                                  IF ~prepared THEN "prepare"
                                  ELSE IF ~computed THEN "compute" ELSE @]
                /\ orchPc' = [orchPc EXCEPT ![o] = "commit"]
                /\ UNCHANGED <<orchOutcome, errors>>
  /\ UNCHANGED totalRequests
  /\ UNCHANGED orchFrame

\* postProcessor.process settles: the result is returned, or the error goes
\* through the catch block.
OrchCommitted(o) ==
  /\ orchPc[o] = "commit"
  /\ \E committed \in StageOutcomes :
       IF committed
         THEN /\ orchOutcome' = [orchOutcome EXCEPT ![o] =
                                   IF failedAt[o] = "none" THEN "result" ELSE @]
              /\ orchPc' = [orchPc EXCEPT ![o] = "done"]
              /\ UNCHANGED <<failedAt, errors>>
         ELSE Fails(o, IF failedAt[o] = "none" THEN "commit" ELSE failedAt[o])
  /\ UNCHANGED <<stagesRun, totalRequests>>
  /\ UNCHANGED orchFrame

NextOrch ==
  \E o \in OrchCalls : OrchCalculate(o) \/ OrchPrepared(o) \/ OrchCommitted(o)

SpecOrch == Init /\ [][NextOrch]_vars

FailedCalls == {o \in OrchCalls : failedAt[o] # "none"}

LastStage(o) == stagesRun[o][Len(stagesRun[o])]

\* C17: a call in which a stage threw invoked no stage after it, ends with
\* that error returned to the caller, and is counted once in metrics.errors;
\* a call in which no stage threw returns the result.
C17_FailurePropagates ==
  /\ \A o \in OrchCalls :
       /\ failedAt[o] # "none"
            => /\ LastStage(o) = failedAt[o]
               /\ orchPc[o] = "done"
               /\ orchOutcome[o] = "error"
       /\ (orchPc[o] = "done" /\ failedAt[o] = "none")
            => (orchOutcome[o] = "result"
                /\ stagesRun[o] = <<"prepare", "compute", "commit">>)
  /\ errors = Cardinality(FailedCalls)

\* One call failed in preparation, one in compute, one in commit.
C17_Witness ==
  /\ \E o \in OrchCalls : failedAt[o] = "prepare" /\ stagesRun[o] = <<"prepare">>
  /\ \E o \in OrchCalls : failedAt[o] = "compute"
  /\ \E o \in OrchCalls : failedAt[o] = "commit"
  /\ errors = 3

\* C18: the webhook step hands control to the commit whatever the webhook
\* calls did: it leaves the transaction open, and changes neither the tables,
\* the buffered rows nor any response; what follows (COMMIT and its outcome)
\* does not read the webhook result.
C18_WebhooksNeverAffectOutcome ==
  [][\A p \in Calls :
       (callPc[p] = "webhook" /\ callPc'[p] # "webhook")
         => /\ callPc'[p] = "commit"
            /\ txState'[p] = "open"
            /\ txBuf' = txBuf
            /\ event_outbox' = event_outbox
            /\ calculation_results' = calculation_results
            /\ response' = response]_vars

\* A call whose webhook calls failed committed and returned its result.
C18_Witness ==
  \E p \in Calls :
    /\ webhookCalls[p] = "failed"
    /\ txState[p] = "committed"
    /\ response[p] = ResultOf(callReq[p])
    /\ RowsBy(p) # {}

\* ----------------------------------------------------------------------
\* DataFetcher.fetchAll: the reads of one request
\* ----------------------------------------------------------------------
fetchFrame == <<callVars, pubVars, event_outbox, now, commitFaults, pubFaults,
                loopVars, prepVars, lockVars, orchVars, freezeVars,
               engineVars,
               cacheVars,
               metricsVars,
               managerVars>>

\* A writer commits a change of the proposal (its line items, modifiers,
\* dependencies and rules) in one transaction.
WriterCommits ==
  /\ storeVersion < MaxVersion
  /\ storeVersion' = storeVersion + 1
  /\ UNCHANGED <<fetchPc, readVersion>>
  /\ UNCHANGED fetchFrame

\* fetchAll: the four fetch* calls are started together.
FetchAll(f) ==
  /\ fetchPc[f] = "idle"
  /\ fetchPc' = [fetchPc EXCEPT ![f] = "parallel"]
  /\ UNCHANGED <<storeVersion, readVersion>>
  /\ UNCHANGED fetchFrame

\* The committed state a statement sent through this.pool.query sees: each
\* statement is a transaction of its own and sees what is committed when it
\* runs.
SeenByPoolQuery(f) == storeVersion

\* One of fetchProposal, fetchLineItems, fetchModifiers, fetchDependencies
\* runs its query; when the fourth has answered, Promise.all resolves and
\* fetchRules is called.
FetchTable(f, t) ==
  /\ fetchPc[f] = "parallel"
  /\ t \in ParallelTables
  /\ readVersion[f][t] = NotRead
  /\ readVersion' = [readVersion EXCEPT ![f][t] = SeenByPoolQuery(f)]
  /\ fetchPc' = [fetchPc EXCEPT ![f] =
                   IF \A u \in ParallelTables \ {t} : readVersion[f][u] # NotRead
                     THEN "rules" ELSE "parallel"]
  /\ UNCHANGED storeVersion
  /\ UNCHANGED fetchFrame

\* fetchRules(modifierIds), then the five results are returned together.
FetchRules(f) ==
  /\ fetchPc[f] = "rules"
  /\ readVersion' = [readVersion EXCEPT ![f]["rules"] = SeenByPoolQuery(f)]
  /\ fetchPc' = [fetchPc EXCEPT ![f] = "done"]
  /\ UNCHANGED storeVersion
  /\ UNCHANGED fetchFrame

NextFetch ==
  \/ WriterCommits
  \/ \E f \in Fetches :
       \/ FetchAll(f)
       \/ \E t \in ParallelTables : FetchTable(f, t)
       \/ FetchRules(f)

SpecFetch == Init /\ [][NextFetch]_vars

\* C19: the reads of one request all see the same committed state of the
\* proposal store.
C19_SingleSnapshot ==
  \A f \in Fetches : \A t \in Tables : \A u \in Tables :
    (readVersion[f][t] # NotRead /\ readVersion[f][u] # NotRead)
      => readVersion[f][t] = readVersion[f][u]

(***************************************************************************)
(* Frozen inputs: ObjectFreezer.freeze, InputNormalizer.normalize,         *)
(* DeltaOptimizer.applyModifierDelta and the two places of PreProcessor    *)
(* that freeze a prepared input and store it in the CacheManager.          *)
(*                                                                         *)
(* The heap is the sequence of the objects allocated so far.  An object    *)
(* has the flag Object.freeze sets, one primitive property (value) and     *)
(* its object-valued properties in order (refs).  A prepared input is a    *)
(* root object whose property modifiers is an array of modifier objects.   *)
(* normalizeNumerics returns the result of JSON.parse, so a prepared input *)
(* holds plain objects and arrays only.                                    *)
(***************************************************************************)
freezeFrame == <<callVars, pubVars, event_outbox, now, commitFaults, pubFaults,
                 loopVars, prepVars, lockVars, orchVars, fetchVars,
               engineVars,
               cacheVars,
               metricsVars,
               managerVars>>

Priorities == {0, 1}
MaxModifiers == 2

\* A newly created object: not frozen.
Obj(v, refs) == [frozen |-> FALSE, value |-> v, refs |-> refs]

\* The objects that can be reached from o through properties.
RECURSIVE Reach(_, _)
Reach(h, o) ==
  {o} \cup UNION {Reach(h, h[o].refs[i]) : i \in DOMAIN h[o].refs}

\* An assignment to a property of o: Object.freeze makes it have no effect
\* (it is ignored, or throws TypeError in strict mode).
Assign(h, o, new) == IF h[o].frozen THEN h ELSE [h EXCEPT ![o] = new]

\* A freeze that stops at the object it is given.
FreezeShallow(h, o) == [h EXCEPT ![o].frozen = TRUE]

\* ObjectFreezer.freeze: Object.freeze(obj), then freeze every property
\* whose value is an object.
RECURSIVE Freeze(_, _)
RECURSIVE FreezeProps(_, _)
Freeze(h, o) == FreezeProps([h EXCEPT ![o].frozen = TRUE], h[o].refs)

FreezeProps(h, props) ==
  IF props = <<>> THEN h
  ELSE FreezeProps(Freeze(h, Head(props)), Tail(props))

\* The comparison of normalize's modifier sort: chain_priority, then id.
ByPriority(h, x, y) ==
  \/ h[x].value < h[y].value
  \/ h[x].value = h[y].value /\ x < y

\* InputNormalizer.normalize: a new root whose modifiers is a new, sorted
\* array of the same modifier objects.  The new root is Len(h) + 1.
Normalize(h, r) ==
  LET a == h[r].refs[1]
  IN  h \o << Obj(h[r].value, << Len(h) + 2 >>),
              Obj(0, SortSeq(h[a].refs, LAMBDA x, y : ByPriority(h, x, y))) >>

\* The position of o among the objects of R.
Rank(o, R) == Cardinality({x \in R : x <= o})

\* JSON.parse(JSON.stringify(cached)): new objects with the same values and
\* the same shape, none of them frozen.  The copy of o is
\* Len(h) + Rank(o, Reach(h, r)).
DeepCopy(h, r) ==
  LET R == Reach(h, r)
      Nth(i) == CHOOSE o \in R : Rank(o, R) = i
  IN  h \o [i \in 1..Cardinality(R) |->
              Obj(h[Nth(i)].value,
                  [j \in DOMAIN h[Nth(i)].refs |->
                     Len(h) + Rank(h[Nth(i)].refs[j], R)])]

\* DeltaOptimizer.applyModifierDelta with one update: i is the index
\* findIndex returns (0: no modifier has the id), v the updated value.
ApplyModifierDelta(h, cached, i, v) ==
  LET h1 == DeepCopy(h, cached)
      result == Len(h) + Rank(cached, Reach(h, cached))
      a == h1[result].refs[1]
      h2 == h1 \o << Obj(v, <<>>) >>
      refs == h2[a].refs
      patched == SubSeq(refs, 1, i - 1) \o << Len(h2) >>
                   \o SubSeq(refs, i + 1, Len(refs))
  IN  IF i = 0 THEN h1
      ELSE Assign(h2, a, [h2[a] EXCEPT !.refs = patched])

\* The modifiers of the input with root r.
ModifiersOf(h, r) == h[h[r].refs[1]].refs

\* _doProcess on a cache miss, from normalizeNumerics on: the fetched data
\* are copied, normalized, frozen, stored in the cache and returned.
PrepareMiss(c, n, vals) ==
  /\ inputCache = NoObject
  /\ Len(heap) + n + 4 <= MaxObjects
  /\ LET base == Len(heap)
         h1 == heap \o << Obj(0, << base + 2 >>),
                          Obj(0, [j \in 1..n |-> base + 2 + j]) >>
                    \o [j \in 1..n |-> Obj(vals[j], <<>>)]
         r == Len(h1) + 1
     IN  /\ heap' = Freeze(Normalize(h1, base + 1), r)
         /\ inputCache' = r
         /\ basePrepared' = r
         /\ holding' = [holding EXCEPT ![c] = r]
  /\ UNCHANGED <<lastDelta, lastWrite>>
  /\ UNCHANGED freezeFrame

\* _doProcess on a cache hit without changes: the cached object itself is
\* returned.
PrepareHit(c) ==
  /\ inputCache # NoObject
  /\ holding[c] # inputCache
  /\ holding' = [holding EXCEPT ![c] = inputCache]
  /\ UNCHANGED <<heap, inputCache, basePrepared, lastDelta, lastWrite>>
  /\ UNCHANGED freezeFrame

\* _doProcess on a cache hit with a modifier change: applyDelta patches a
\* copy, normalizes and freezes it, stores it under the same key and
\* returns it.
ApplyDelta(c, i, v) ==
  /\ inputCache # NoObject
  /\ i \in 0..Len(ModifiersOf(heap, inputCache))
  /\ Len(heap) + Cardinality(Reach(heap, inputCache)) + 3 <= MaxObjects
  /\ LET h1 == ApplyModifierDelta(heap, inputCache, i, v)
         updated == Len(heap) + Rank(inputCache, Reach(heap, inputCache))
         r == Len(h1) + 1
     IN  /\ heap' = Freeze(Normalize(h1, updated), r)
         /\ inputCache' = r
         /\ holding' = [holding EXCEPT ![c] = r]
         /\ lastDelta' = [from |-> inputCache, to |-> r]
  /\ UNCHANGED <<basePrepared, lastWrite>>
  /\ UNCHANGED freezeFrame

\* Code that holds a prepared input (the engine, the commit stage, another
\* caller that got the same cached object) assigns to a property of one of
\* its objects: a new value, or, with clear, an emptied collection.
Write(c, o, v, clear) ==
  /\ holding[c] # NoObject
  /\ o \in Reach(heap, holding[c])
  /\ heap' = Assign(heap, o, IF clear THEN [heap[o] EXCEPT !.refs = <<>>]
                                      ELSE [heap[o] EXCEPT !.value = v])
  /\ lastWrite' = [obj |-> o, applied |-> ~heap[o].frozen]
  /\ UNCHANGED <<inputCache, basePrepared, holding, lastDelta>>
  /\ UNCHANGED freezeFrame

NextFreeze ==
  \E c \in Holders :
    \/ \E n \in 1..MaxModifiers : \E vals \in [1..n -> Priorities] :
         PrepareMiss(c, n, vals)
    \/ PrepareHit(c)
    \/ \E i \in 0..MaxModifiers : \E v \in Priorities : ApplyDelta(c, i, v)
    \/ \E o \in 1..MaxObjects : \E v \in Priorities : \E clear \in BOOLEAN :
         Write(c, o, v, clear)

SpecFreeze == Init /\ [][NextFreeze]_vars

\* The roots of the prepared inputs somebody holds: the cache or a caller.
HeldRoots == ({inputCache} \cup {holding[c] : c \in Holders}) \ {NoObject}

\* C20: no step changes any object of a prepared input that the cache or a
\* caller holds, whatever is assigned through it, and the input a delta
\* returns shares no object with the cached input it was made from.
C20_FrozenInputImmutable ==
  [][ /\ \A r \in HeldRoots : \A o \in Reach(heap, r) : heap'[o] = heap[o]
      /\ lastDelta' # lastDelta =>
           Reach(heap', lastDelta'.to) \cap Reach(heap, lastDelta'.from) = {}
    ]_vars

\* A caller still holds the input a delta was made from, and an assignment
\* to one of its objects had no effect.
C20_Witness ==
  /\ lastDelta.from # NoObject
  /\ \E c \in Holders : holding[c] = lastDelta.from
  /\ lastWrite.obj \in Reach(heap, lastDelta.from)
  /\ ~lastWrite.applied

(***************************************************************************)
(* The pure engine: PureCalculationEngine.calculate and what it calls.     *)
(*                                                                         *)
(* Amounts are integers in units of 10^-8, one digit below Q7, so that a   *)
(* product of a Q7 price and a quantity of one half is exact.  A quantity  *)
(* is counted in halves.  Percentages and the tax rate are whole percents. *)
(***************************************************************************)
engineFrame == <<callVars, pubVars, event_outbox, now, commitFaults, pubFaults,
                 loopVars, prepVars, lockVars, orchVars, fetchVars,
                 freezeVars, cacheVars,
               metricsVars,
               managerVars>>

\* Units of 10^-8 in one unit of Q7 and in one unit of Q2.
PerQ7 == 10
PerQ2 == 1000000

\* Decimal.ROUND_HALF_UP of n/d to an integer: to the nearest, a tie away
\* from zero (d > 0).
RoundHalfUp(n, d) ==
  IF n >= 0 THEN (2 * n + d) \div (2 * d)
            ELSE -((2 * (-n) + d) \div (2 * d))

\* PrecisionPolicy.intermediate of the value n/d: seven decimals.
IntermediateOf(n, d) == RoundHalfUp(n, d * PerQ7) * PerQ7
Intermediate(x) == IntermediateOf(x, 1)

\* PrecisionPolicy.final(x).toFixed(2) and Decimal.toFixed(2): the amount in
\* cents.
Final(x) == RoundHalfUp(x, PerQ2)

\* new Decimal(item.unitPrice).mul(item.quantity)
LineTotal(item) == (item.unitPrice * item.quantity) \div 2

\* computeBaseSubtotal: reduce over the line items in their order,
\* rounding the running sum after each addition.
RECURSIVE ComputeBaseSubtotalFrom(_, _)
ComputeBaseSubtotalFrom(sum, lineItems) ==
  IF lineItems = << >> THEN sum
  ELSE ComputeBaseSubtotalFrom(Intermediate(sum + LineTotal(Head(lineItems))),
                               Tail(lineItems))

ComputeBaseSubtotal(lineItems) == ComputeBaseSubtotalFrom(0, lineItems)

\* Comparators.byChainPriorityThenId (ids are unique after validateInput).
ByChainPriorityThenId(a, b) ==
  \/ a.chain_priority < b.chain_priority
  \/ a.chain_priority = b.chain_priority /\ a.id < b.id

\* The grouping key of groupModifiers; the attributes the inputs do not
\* vary (tax_setting, affects_quantity, cost_percentage, display_mode,
\* application_type, product_id) have their defaults in every key.
GroupKey(m) == <<m.modifier_type, m.category>>

\* groupModifiers: sort, then collect the modifiers of each key; the groups
\* are in the order in which their keys first occur (Map insertion order).
RECURSIVE GroupsFrom(_, _)
GroupsFrom(groups, sorted) ==
  IF sorted = << >> THEN groups
  ELSE LET m == Head(sorted)
           at == {i \in DOMAIN groups : groups[i].key = GroupKey(m)}
       IN  IF at = {}
           THEN GroupsFrom(Append(groups, [key |-> GroupKey(m),
                                           modifiers |-> <<m>>]),
                           Tail(sorted))
           ELSE LET i == CHOOSE j \in at : TRUE
                IN GroupsFrom([groups EXCEPT ![i].modifiers = Append(@, m)],
                              Tail(sorted))

GroupModifiers(modifiers) ==
  GroupsFrom(<< >>, SortSeq(modifiers, ByChainPriorityThenId))

\* The sum of the values of a group's modifiers.
RECURSIVE TotalValue(_)
TotalValue(modifiers) ==
  IF modifiers = << >> THEN 0
  ELSE Head(modifiers).value + TotalValue(Tail(modifiers))

\* calculateGroupAdjustment for percentage and fixed groups.
CalculateGroupAdjustment(group, basis) ==
  IF group.key[1] = "percentage"
    THEN IntermediateOf(basis * TotalValue(group.modifiers), 100)
    ELSE Intermediate(TotalValue(group.modifiers))

\* applyModifierGroups: the groups in order, each on the running subtotal.
RECURSIVE ApplyModifierGroups(_, _)
ApplyModifierGroups(state, groups) ==
  IF groups = << >> THEN state
  ELSE LET adjustment ==
             CalculateGroupAdjustment(Head(groups), state.runningSubtotal)
       IN ApplyModifierGroups(
            [state EXCEPT
               !.runningSubtotal = Intermediate(@ + adjustment),
               !.adjustments = Append(@, [groupId |-> Head(groups).key,
                                          amount |-> adjustment])],
            Tail(groups))

\* Retail tax rate of the inputs, in percent (config.tax_rate = '0.08').
TaxRate == 8

\* calculateTaxes, single rate, mode RETAIL, every line and every group
\* taxable: the base adds each rounded line total and each adjustment.
RECURSIVE TaxableLines(_, _)
TaxableLines(base, lineItems) ==
  IF lineItems = << >> THEN base
  ELSE TaxableLines(
         Intermediate(base + Intermediate(LineTotal(Head(lineItems)))),
         Tail(lineItems))

RECURSIVE TaxableAdjustments(_, _)
TaxableAdjustments(base, adjustments) ==
  IF adjustments = << >> THEN base
  ELSE TaxableAdjustments(Intermediate(base + Head(adjustments).amount),
                          Tail(adjustments))

CalculateTaxes(state, lineItems) ==
  LET taxableBase ==
        TaxableAdjustments(TaxableLines(0, lineItems), state.adjustments)
  IN [state EXCEPT !.retailTaxAmount =
                     IntermediateOf(taxableBase * TaxRate, 100)]

\* buildResult: the Q2 fields and the adjustments in order.
BuildResult(state) ==
  [subtotal |-> Final(state.baseSubtotal),
   modifierTotal |-> Final(TaxableAdjustments(0, state.adjustments)),
   retailTax |-> Final(state.retailTaxAmount),
   customerGrandTotal |->
     Final(state.runningSubtotal + state.retailTaxAmount),
   adjustments |-> [i \in DOMAIN state.adjustments |->
                      [groupId |-> state.adjustments[i].groupId,
                       amount |-> Final(state.adjustments[i].amount)]]]


\* generateChecksum: SHA-256 of the JSON text of canonicalize(result), taken
\* as injective; the text lists the fields of every object in sorted key
\* order and the elements of every array in their order.
GenerateChecksum(result) ==
  << [i \in DOMAIN result.adjustments |->
        <<result.adjustments[i].amount, result.adjustments[i].groupId>>],
     result.customerGrandTotal, result.modifierTotal, result.retailTax,
     result.subtotal >>

\* The REQUIRES edges of calculateDependencyDepth: graph.get(n) lists the
\* modifiers that depend on n, in the order of the dependencies.
Requires(dependencies) ==
  SelectSeq(dependencies, LAMBDA d : d.type = "REQUIRES")

DepNodes(dependencies) ==
  {Requires(dependencies)[i].modifier_id : i \in DOMAIN Requires(dependencies)}
    \cup
  {Requires(dependencies)[i].depends_on : i \in DOMAIN Requires(dependencies)}

Neighbors(dependencies, n) ==
  {Requires(dependencies)[i].modifier_id :
     i \in {j \in DOMAIN Requires(dependencies) :
              Requires(dependencies)[j].depends_on = n}}

InDegree(dependencies, n) ==
  Cardinality({i \in DOMAIN Requires(dependencies) :
                 Requires(dependencies)[i].modifier_id = n})

\* The value findLongestPath gives when the recursion does not end: the call
\* stack overflows and a RangeError is thrown.
StackOverflow == -1

Max(S) == IF S = {} THEN 0 ELSE CHOOSE x \in S : \A y \in S : y <= x

\* findLongestPath(node): one more than the longest path from a neighbour.
\* The memo is only written after the neighbours returned, so on a cycle
\* the recursion never ends; a path with more nodes than the graph has is
\* on a cycle.
RECURSIVE FindLongestPath(_, _, _)
FindLongestPath(dependencies, node, room) ==
  IF room = 0 THEN StackOverflow
  ELSE LET below == {FindLongestPath(dependencies, m, room - 1) :
                       m \in Neighbors(dependencies, node)}
       IN IF StackOverflow \in below THEN StackOverflow ELSE Max(below) + 1

\* calculateDependencyDepth: the longest path from a node of in-degree 0.
CalculateDependencyDepth(dependencies) ==
  LET nodes == DepNodes(dependencies)
      starts == {n \in nodes : InDegree(dependencies, n) = 0}
      depths == {FindLongestPath(dependencies, n, Cardinality(nodes) + 1) :
                   n \in starts}
  IN IF StackOverflow \in depths THEN StackOverflow ELSE Max(depths)

\* this.limits.maxDependencyDepth
MaxDependencyDepth == 10

\* validateInput: the checks that the inputs here can fail.
ValidateInput(in) ==
  /\ \/ in.dependencies = << >>
     \/ LET depth == CalculateDependencyDepth(in.dependencies)
        IN depth # StackOverflow /\ depth <= MaxDependencyDepth
  /\ \A i \in DOMAIN in.modifiers : \A j \in DOMAIN in.modifiers :
       in.modifiers[i].id = in.modifiers[j].id => i = j

Rejected == [rejected |-> TRUE, checksum |-> << >>]

\* calculate: validate, base subtotal, pre-tax groups, taxes, result,
\* checksum (every modifier of the inputs here is pre_tax).
Calculate(in) ==
  IF ~ValidateInput(in) THEN Rejected
  ELSE LET subtotal == ComputeBaseSubtotal(in.lineItems)
           initialState == [baseSubtotal |-> subtotal,
                            runningSubtotal |-> subtotal,
                            adjustments |-> << >>,
                            retailTaxAmount |-> 0]
           afterPreTax ==
             ApplyModifierGroups(initialState, GroupModifiers(in.modifiers))
           afterTax == CalculateTaxes(afterPreTax, in.lineItems)
       IN [rejected |-> FALSE,
           checksum |-> GenerateChecksum(BuildResult(afterTax))]

\* ---------------------------------------------- inputs of the checksum
\* Unit prices 0.005, -0.0000001 and 0.002; quantities one half and one.
CheckPrices == {500000, -10, 200000}
CheckQuantities == {1, 2}
CheckLineIds == {1, 2}
CheckValues == [percentage |-> {-10, 5}, fixed |-> {1000000}]

CheckModifier(i) ==
  UNION {[id : {i}, chain_priority : {1, 2}, modifier_type : {t},
          category : {"discount"}, value : CheckValues[t]] :
           t \in {"percentage", "fixed"}}

CheckDependencies ==
  LET a == [modifier_id |-> 1, depends_on |-> 2, type |-> "REQUIRES"]
      b == [modifier_id |-> 2, depends_on |-> 1, type |-> "REQUIRES"]
  IN {<< >>, <<a>>, <<b>>, <<a, b>>}

ChecksumInputs ==
  LET lines == {s \in [CheckLineIds ->
                         [id : CheckLineIds, unitPrice : CheckPrices,
                          quantity : CheckQuantities]] :
                  \A i \in CheckLineIds : s[i].id = i}
      none == [lineItems : lines, modifiers : {<< >>},
               dependencies : {<< >>}]
      one == [lineItems : lines,
              modifiers : {<<m>> : m \in CheckModifier(1)},
              dependencies : {<< >>}]
      two == [lineItems : lines,
              modifiers : {<<m, n>> : m \in CheckModifier(1),
                                      n \in CheckModifier(2)},
              dependencies : CheckDependencies]
  IN none \cup one \cup two

InitChecksum ==
  /\ CoreInit
  /\ StagesInit
  /\ input \in ChecksumInputs
  /\ results = {}
  /\ CacheInit

\* The orders in which the elements of s can be given.
Shuffles(s) ==
  {[i \in DOMAIN s |-> s[f[i]]] :
     f \in {g \in [DOMAIN s -> DOMAIN s] :
              \A i \in DOMAIN s : \A j \in DOMAIN s : g[i] = g[j] => i = j}}

\* The same input is given with its line items, its modifiers or its
\* dependencies in another order.
ShuffleLineItems ==
  /\ \E s \in Shuffles(input.lineItems) \ {input.lineItems} :
       input' = [input EXCEPT !.lineItems = s]
  /\ UNCHANGED results
  /\ UNCHANGED engineFrame

ShuffleModifiers ==
  /\ \E s \in Shuffles(input.modifiers) \ {input.modifiers} :
       input' = [input EXCEPT !.modifiers = s]
  /\ UNCHANGED results
  /\ UNCHANGED engineFrame

ShuffleDependencies ==
  /\ \E s \in Shuffles(input.dependencies) \ {input.dependencies} :
       input' = [input EXCEPT !.dependencies = s]
  /\ UNCHANGED results
  /\ UNCHANGED engineFrame

\* pureEngine.calculate(input)
CalculateChecksum ==
  /\ results' = results \cup {Calculate(input)}
  /\ results' # results
  /\ UNCHANGED input
  /\ UNCHANGED engineFrame

NextChecksum ==
  \/ ShuffleLineItems
  \/ ShuffleModifiers
  \/ ShuffleDependencies
  \/ CalculateChecksum

SpecChecksum == InitChecksum /\ [][NextChecksum]_vars

\* C21: whatever the order in which the line items, the modifiers and the
\* dependencies of an input are given, calculate returns the same checksum.
C21_ChecksumIndependentOfOrder == Cardinality(results) <= 1

(***************************************************************************)
(* The preparation cache: CacheManager.  Time is counted in half hours.    *)
(***************************************************************************)
cacheFrame == <<callVars, pubVars, event_outbox, now, commitFaults, pubFaults,
                loopVars, prepVars, lockVars, orchVars, fetchVars, freezeVars,
                engineVars,
               metricsVars,
               managerVars>>

\* options.maxSize of the cache under check.
CacheMaxSize == 2
OneHour == 2
MaxClock == 4

\* The ttl arguments of set: none (what _doProcess and applyDelta pass), or
\* one hour.
TtlArgs == {NoTtl, OneHour}

\* removeFromAccessOrder: the first occurrence of the key is removed.
RECURSIVE RemoveFromAccessOrder(_, _)
RemoveFromAccessOrder(order, k) ==
  IF order = << >> THEN << >>
  ELSE IF Head(order) = k THEN Tail(order)
  ELSE <<Head(order)>> \o RemoveFromAccessOrder(Tail(order), k)

\* updateAccessOrder
UpdateAccessOrder(order, k) == Append(RemoveFromAccessOrder(order, k), k)

\* ttl && Date.now() > ttl
Expired(k) == ttlMap[k] # NoTtl /\ clock > ttlMap[k]

\* CacheManager.get(key)
CacheGet(k) ==
  /\ IF k \in cache /\ Expired(k)
       THEN /\ cache' = cache \ {k}
            /\ ttlMap' = [ttlMap EXCEPT ![k] = NoTtl]
            /\ accessOrder' = accessOrder
            /\ lookup' = [key |-> k, hit |-> FALSE, age |-> 0, ttl |-> NoTtl]
       ELSE IF k \in cache
       THEN /\ accessOrder' = UpdateAccessOrder(accessOrder, k)
            /\ lookup' = [key |-> k, hit |-> TRUE,
                          age |-> clock - storedAt[k].at,
                          ttl |-> storedAt[k].ttl]
            /\ UNCHANGED <<cache, ttlMap>>
       ELSE /\ lookup' = [key |-> k, hit |-> FALSE, age |-> 0, ttl |-> NoTtl]
            /\ UNCHANGED <<cache, ttlMap, accessOrder>>
  /\ UNCHANGED <<clock, storedAt>>
  /\ UNCHANGED cacheFrame

\* CacheManager.set(key, value, ttl), with evictLRU when a new key arrives
\* at a full cache.
CacheSet(k, ttl) ==
  LET evicts == k \notin cache /\ Cardinality(cache) >= CacheMaxSize
                  /\ accessOrder # << >>
      lruKey == Head(accessOrder)
      cache1 == IF evicts THEN cache \ {lruKey} ELSE cache
      ttl1 == IF evicts THEN [ttlMap EXCEPT ![lruKey] = NoTtl] ELSE ttlMap
      order1 == IF evicts THEN Tail(accessOrder) ELSE accessOrder
  IN /\ cache' = cache1 \cup {k}
     /\ ttlMap' = [ttl1 EXCEPT ![k] = IF ttl > 0 THEN clock + ttl ELSE NoTtl]
     /\ accessOrder' = UpdateAccessOrder(order1, k)
     /\ storedAt' = [storedAt EXCEPT ![k] = [at |-> clock, ttl |-> ttl]]
     /\ UNCHANGED <<clock, lookup>>
     /\ UNCHANGED cacheFrame

\* CacheManager.invalidate(pattern): matched is the set of keys the pattern
\* matches; only keys found in the cache are deleted.
RECURSIVE RemoveAll(_, _)
RemoveAll(order, S) ==
  IF S = {} THEN order
  ELSE LET k == CHOOSE x \in S : TRUE
       IN RemoveAll(RemoveFromAccessOrder(order, k), S \ {k})

CacheInvalidate(matched) ==
  LET keysToDelete == matched \cap cache
  IN /\ keysToDelete # {}
     /\ cache' = cache \ keysToDelete
     /\ ttlMap' = [k \in Keys |-> IF k \in keysToDelete THEN NoTtl
                                                       ELSE ttlMap[k]]
     /\ accessOrder' = RemoveAll(accessOrder, keysToDelete)
     /\ UNCHANGED <<clock, storedAt, lookup>>
     /\ UNCHANGED cacheFrame

\* Time passes.
ClockAdvances ==
  /\ clock < MaxClock
  /\ clock' = clock + 1
  /\ UNCHANGED <<cache, ttlMap, accessOrder, storedAt, lookup>>
  /\ UNCHANGED cacheFrame

NextCache ==
  \/ \E k \in Keys : CacheGet(k)
  \/ \E k \in Keys : \E ttl \in TtlArgs : CacheSet(k, ttl)
  \/ \E matched \in {{k} : k \in Keys} \cup {Keys} : CacheInvalidate(matched)
  \/ ClockAdvances

SpecCache == Init /\ [][NextCache]_vars

\* C22: a lookup answers with an entry only while the entry is no older
\* than its ttl, one hour when set was given none.
C22_EntriesExpireByTtl ==
  lookup.hit =>
    lookup.age <= (IF lookup.ttl = NoTtl THEN OneHour ELSE lookup.ttl)

\* C23: the cache never holds more entries than its configured size.
C23_SizeNeverExceedsMaxSize == Cardinality(cache) <= CacheMaxSize

(***************************************************************************)
(* The delta decision: what PreProcessor._doProcess does on a cache hit    *)
(* when the request carries changes, and the conditions and thresholds of  *)
(* DeltaRebuildDecider.                                                    *)
(***************************************************************************)
\* DeltaRebuildDecider.thresholds
MaxDeltaComplexity == 5
MaxChangeRatioTenths == 3
MaxCascadeDepth == 3
MaxDeltaAttempts == 3

\* ChangeDetector.detectChangeType
DetectChangeType(in) ==
  IF in.dependenciesChanged > 0 \/ in.rulesChanged > 0 THEN "COMPLEX"
  ELSE IF in.modifiersUpdated > 0 /\ in.lineItemsUpdated > 0 THEN "COMPLEX"
  ELSE IF in.lineItemsUpdated > 0 THEN "LINE_ITEM"
  ELSE IF in.modifiersUpdated > 0 THEN "MODIFIER_ONLY"
  ELSE "NONE"

\* A cache hit with changes: how many line items and modifiers the request
\* updates, whether it changes dependencies or rules, and the state of the
\* cached input.
DeltaInputs ==
  {in \in
  [lineItemsUpdated : 0..2, modifiersUpdated : 0..2,
   dependenciesChanged : 0..1, rulesChanged : 0..1,
   cachedItems : {2, 10},
   schemaMismatch : BOOLEAN,
   olderThanTtl : BOOLEAN,
   cascadeDepth : {0, MaxCascadeDepth + 1},
   recentFailures : {0, MaxDeltaAttempts + 1}] :
     DetectChangeType(in) # "NONE"}

InitDelta ==
  /\ CoreInit
  /\ StagesInit
  /\ CacheInit
  /\ input \in DeltaInputs
  /\ results = {}

\* PreProcessor.isDeltaChange
IsDeltaChange(in) == DetectChangeType(in) \in {"MODIFIER_ONLY", "LINE_ITEM"}

\* The cache-hit branch of _doProcess: applyDelta if isDeltaChange,
\* otherwise the cached input is returned as it is.
OnCacheHit(in) == IF IsDeltaChange(in) THEN "delta" ELSE "cached"

\* DeltaRebuildDecider.countChanges
CountChanges(in) == in.lineItemsUpdated + in.modifiersUpdated

\* DeltaRebuildDecider.calculateDeltaComplexity
CalculateDeltaComplexity(in) ==
  (IF in.lineItemsUpdated > 0 THEN 1 ELSE 0)
  + (IF in.modifiersUpdated > 0 THEN 1 ELSE 0)
  + (IF in.dependenciesChanged > 0 THEN 2 ELSE 0)
  + (IF in.rulesChanged > 0 THEN 3 ELSE 0)

\* The conditions under which a full rebuild is required.
RebuildForced(in) ==
  \/ in.schemaMismatch
  \/ in.olderThanTtl
  \/ CountChanges(in) * 10 > MaxChangeRatioTenths * in.cachedItems
  \/ CalculateDeltaComplexity(in) > MaxDeltaComplexity
  \/ in.cascadeDepth > MaxCascadeDepth
  \/ in.recentFailures > MaxDeltaAttempts
  \/ in.dependenciesChanged > 0
  \/ in.rulesChanged > 0

\* _doProcess finds the cached input of a request that carries changes.
ProcessChanges ==
  /\ results = {}
  /\ results' = {OnCacheHit(input)}
  /\ UNCHANGED input
  /\ UNCHANGED engineFrame

NextDelta == ProcessChanges

SpecDelta == InitDelta /\ [][NextDelta]_vars

\* C24: a delta is applied only when no rebuild condition holds, and when
\* one holds the input is rebuilt in full.
C24_DeltaOnlyWhenNoRebuildForced ==
  \A r \in results :
    /\ r = "delta" => ~RebuildForced(input)
    /\ RebuildForced(input) => r = "rebuild"

\* ------------------------------------------------------------------
\* The dependency check of the pure engine (validateInput): inputs whose
\* dependencies form every small graph over three modifier ids, and the
\* chains of two to twelve modifiers.
\* ------------------------------------------------------------------
DepthIds == {1, 2, 3}
LongestChain == 12

DepthEdges ==
  [modifier_id : DepthIds, depends_on : DepthIds,
   type : {"REQUIRES", "EXCLUDES"}]

\* Chain(n): modifier i + 1 requires modifier i, for n modifiers.
Chain(n) ==
  [i \in 1..(n - 1) |->
     [modifier_id |-> i + 1, depends_on |-> i, type |-> "REQUIRES"]]

DepthInputs ==
  [lineItems : {<<[id |-> 1, unitPrice |-> 200000, quantity |-> 2]>>},
   modifiers : {<< >>},
   dependencies : {<<d>> : d \in DepthEdges}
                    \cup {<<d, e>> : d \in DepthEdges, e \in DepthEdges}
                    \cup {<<d, e, f>> : d \in DepthEdges \cap
                                               [modifier_id : DepthIds,
                                                depends_on : DepthIds,
                                                type : {"REQUIRES"}],
                                        e \in {Chain(3)[1]},
                                        f \in {Chain(3)[2]}}
                    \cup {Chain(n) : n \in 2..LongestChain}]

InitDepth ==
  /\ CoreInit
  /\ StagesInit
  /\ CacheInit
  /\ input \in DepthInputs
  /\ results = {}

\* pureEngine.calculate(input): validateInput throws or a result is built.
CalculateDepth ==
  /\ results = {}
  /\ results' = {Calculate(input)}
  /\ UNCHANGED input
  /\ UNCHANGED engineFrame

NextDepth == CalculateDepth

SpecDepth == InitDepth /\ [][NextDepth]_vars

\* The REQUIRES edges of the dependencies, as pairs.
RequiresEdges(dependencies) ==
  {<<dependencies[i].modifier_id, dependencies[i].depends_on>> :
     i \in {j \in DOMAIN dependencies : dependencies[j].type = "REQUIRES"}}

\* The pairs joined by a path of exactly k edges.
RECURSIVE PathsOf(_, _)
PathsOf(E, k) ==
  IF k = 1 THEN E
  ELSE {<<x[1][1], x[2][2]>> :
          x \in {y \in PathsOf(E, k - 1) \X E : y[1][2] = y[2][1]}}

HasCycle(dependencies) ==
  LET E == RequiresEdges(dependencies)
  IN \E k \in 1..Cardinality(E) : \E p \in PathsOf(E, k) : p[1] = p[2]

\* A chain of more than maxDependencyDepth modifiers has a path of
\* maxDependencyDepth edges.
ChainTooLong(dependencies) ==
  PathsOf(RequiresEdges(dependencies), MaxDependencyDepth) # {}

\* C25: an input whose REQUIRES dependencies contain a cycle, or a chain of
\* more than 10 modifiers, is rejected: calculate returns no result.
C25_CycleOrLongChainRejected ==
  \A r \in results :
    (HasCycle(input.dependencies) \/ ChainTooLong(input.dependencies))
      => r = Rejected

\* ------------------------------------------------------------------
\* Dependency resolution of the compliant engine (resolveDependencies):
\* modifiers m1..m3 as the pre-processor delivers them, sorted by
\* (chain_priority, id), and up to two dependencies, which may name the
\* modifier m4 that is not in the input.
\* ------------------------------------------------------------------
ResolveIds == {1, 2, 3}
AbsentId == 4
ChainPriorities == {1, 2}
NoPriority == 0
DefaultPriority == 999

\* modifier.priority || 999
PriorityOf(m) ==
  IF m.priority = NoPriority THEN DefaultPriority ELSE m.priority

\* modifier.chain_priority || 999
ChainPriorityOf(m) ==
  IF m.chain_priority = 0 THEN DefaultPriority ELSE m.chain_priority

ModifierIds(modifiers) == {modifiers[i].id : i \in DOMAIN modifiers}

\* modifierMap[id]
ModifierMap(modifiers, id) ==
  modifiers[CHOOSE i \in DOMAIN modifiers : modifiers[i].id = id]

\* The comparator of queue.sort and nextToAdd.sort: priority, then id.
ByPriorityThenId(modifiers, a, b) ==
  LET pa == PriorityOf(ModifierMap(modifiers, a))
      pb == PriorityOf(ModifierMap(modifiers, b))
  IN IF pa # pb THEN pa < pb ELSE a <= b

RECURSIVE SortIds(_, _)
SortIds(S, modifiers) ==
  IF S = {} THEN << >>
  ELSE LET first == CHOOSE a \in S :
                      \A b \in S : ByPriorityThenId(modifiers, a, b)
       IN <<first>> \o SortIds(S \ {first}, modifiers)

\* buildDependencyGraph: one node for each modifier; an edge is added only
\* when its modifier_id is a node.
BuildDependencyGraph(modifiers, dependencies) ==
  [n \in ModifierIds(modifiers) |->
     LET of(t) == SelectSeq(dependencies,
                            LAMBDA d : d.modifier_id = n
                                         /\ d.dependency_type = t)
     IN [requires |-> [i \in DOMAIN of("REQUIRES") |->
                         of("REQUIRES")[i].depends_on],
         excludes |-> [i \in DOMAIN of("EXCLUDES") |->
                         of("EXCLUDES")[i].depends_on]]]

RequiresOf(graph, n) ==
  {graph[n].requires[i] : i \in DOMAIN graph[n].requires}

\* detectCycles: the depth-first search finds a node on its own recursion
\* stack exactly when a path of requires edges leads from a node to itself.
DetectCycles(graph) ==
  LET E == {e \in (DOMAIN graph) \X ((DOMAIN graph) \cup {AbsentId}) :
              e[2] \in RequiresOf(graph, e[1])}
  IN \E k \in 1..Cardinality(E) : \E p \in PathsOf(E, k) : p[1] = p[2]

\* The cascade of topologicalSort: a modifier that requires an invalid one
\* is invalid.
RECURSIVE CascadeInvalid(_, _)
CascadeInvalid(graph, invalidModifiers) ==
  LET more == {n \in DOMAIN graph :
                 RequiresOf(graph, n) \cap invalidModifiers # {}}
  IN IF more \subseteq invalidModifiers THEN invalidModifiers
     ELSE CascadeInvalid(graph, invalidModifiers \cup more)

\* The queue loop of topologicalSort: the head is emitted, the in-degree of
\* each of its neighbours goes down, and the neighbours that reach zero are
\* sorted among themselves and pushed at the end of the queue.
RECURSIVE ProcessQueue(_, _, _, _, _)
ProcessQueue(graph, modifiers, queue, sorted, inDegree) ==
  IF queue = << >> THEN sorted
  ELSE LET current == Head(queue)
           hits(n) == Cardinality({i \in DOMAIN graph[n].requires :
                                     graph[n].requires[i] = current})
           lowered == [n \in DOMAIN inDegree |-> inDegree[n] - hits(n)]
           nextToAdd == {n \in DOMAIN inDegree :
                           hits(n) > 0 /\ lowered[n] = 0}
       IN ProcessQueue(graph, modifiers,
                       Tail(queue) \o SortIds(nextToAdd, modifiers),
                       Append(sorted, current), lowered)

\* topologicalSort
TopologicalSort(graph, modifiers) ==
  LET ids == DOMAIN graph
      inDegree == [n \in ids |->
                     Cardinality({i \in DOMAIN graph[n].requires :
                                    graph[n].requires[i] \in ids})]
      invalidModifiers ==
        CascadeInvalid(graph,
                       {n \in ids : ~(RequiresOf(graph, n) \subseteq ids)})
      validModifiers == ids \ invalidModifiers
      queue == SortIds({n \in ids : inDegree[n] = 0
                                      /\ n \notin invalidModifiers},
                       modifiers)
      sorted == ProcessQueue(graph, modifiers, queue, << >>, inDegree)
  IN IF validModifiers = {} THEN [thrown |-> FALSE, sorted |-> << >>]
     ELSE IF Len(sorted) # Cardinality(validModifiers)
          THEN [thrown |-> TRUE, sorted |-> << >>]
          ELSE [thrown |-> FALSE, sorted |-> sorted]

\* excludeMap without the symmetric entry.
ExcludeMapOneWay(dependencies, id) ==
  {dependencies[i].depends_on :
     i \in {j \in DOMAIN dependencies :
              /\ dependencies[j].dependency_type = "EXCLUDES"
              /\ dependencies[j].modifier_id = id}}

\* excludeMap[id]: the exclusions are made symmetric.
ExcludeMap(dependencies, id) ==
  LET ex == {i \in DOMAIN dependencies :
               dependencies[i].dependency_type = "EXCLUDES"}
  IN {dependencies[i].depends_on :
        i \in {j \in ex : dependencies[j].modifier_id = id}}
       \cup
     {dependencies[i].modifier_id :
        i \in {j \in ex : dependencies[j].depends_on = id}}

\* processExclusions: in the sorted order, a modifier is rejected when an
\* already approved one excludes it; the winner is the first such one.
RECURSIVE ProcessExclusions(_, _, _, _)
ProcessExclusions(sorted, dependencies, approved, rejectedReasons) ==
  IF sorted = << >>
  THEN [approved |-> approved, rejectedReasons |-> rejectedReasons]
  ELSE LET id == Head(sorted)
           winners == {i \in DOMAIN approved :
                         approved[i] \in ExcludeMap(dependencies, id)}
       IN IF winners # {}
          THEN ProcessExclusions(
                 Tail(sorted), dependencies, approved,
                 rejectedReasons \cup
                   {[id |-> id, reason |-> "excluded_by",
                     by |-> approved[CHOOSE i \in winners :
                                       \A j \in winners : i <= j]]})
          ELSE ProcessExclusions(Tail(sorted), dependencies,
                                 Append(approved, id), rejectedReasons)

Range(s) == {s[i] : i \in DOMAIN s}

Thrown == [thrown |-> TRUE, sorted |-> << >>, approved |-> << >>,
           rejected |-> {}]

\* resolveDependencies
ResolveDependencies(modifiers, dependencies) ==
  LET inputOrder == [i \in DOMAIN modifiers |-> modifiers[i].id]
      graph == BuildDependencyGraph(modifiers, dependencies)
      ts == TopologicalSort(graph, modifiers)
      sortedIds == Range(ts.sorted)
      rejectedDueToDependencies ==
        {[id |-> n,
          reason |-> IF \E r \in RequiresOf(graph, n) :
                          r \notin DOMAIN graph \/ r \notin sortedIds
                     THEN "missing_requirement"
                     ELSE "invalid_dependency",
          by |-> 0] : n \in (DOMAIN graph) \ sortedIds}
      excl == ProcessExclusions(ts.sorted, dependencies, << >>, {})
  IN IF modifiers = << >>
     THEN [thrown |-> FALSE, sorted |-> << >>, approved |-> << >>,
           rejected |-> {}]
     ELSE IF dependencies = << >>
     THEN [thrown |-> FALSE, sorted |-> inputOrder, approved |-> inputOrder,
           rejected |-> {}]
     ELSE IF DetectCycles(graph) \/ ts.thrown THEN Thrown
     ELSE [thrown |-> FALSE, sorted |-> ts.sorted,
           approved |-> excl.approved,
           rejected |-> excl.rejectedReasons \cup rejectedDueToDependencies]

\* ------------------------------------------- inputs of the resolution
\* The modifiers of the ids S, sorted by (chain_priority, id) as
\* InputNormalizer.normalize leaves them.
RECURSIVE SortedModifiers(_)
SortedModifiers(M) ==
  IF M = {} THEN << >>
  ELSE LET first == CHOOSE a \in M : \A b \in M :
                      \/ ChainPriorityOf(a) < ChainPriorityOf(b)
                      \/ ChainPriorityOf(a) = ChainPriorityOf(b)
                           /\ a.id <= b.id
       IN <<first>> \o SortedModifiers(M \ {first})

\* Each modifier carries chain_priority; the field priority is either on no
\* modifier or repeats chain_priority on each.
ResolveModifiers ==
  {SortedModifiers({[id |-> n,
                     chain_priority |-> cp[n],
                     priority |-> IF withPriority THEN cp[n] ELSE NoPriority] :
                      n \in S}) :
     S \in (SUBSET ResolveIds) \ {{}},
     cp \in [ResolveIds -> ChainPriorities],
     withPriority \in BOOLEAN}

ResolveEdges ==
  [modifier_id : ResolveIds, depends_on : ResolveIds \cup {AbsentId},
   dependency_type : {"REQUIRES", "EXCLUDES"}]

ResolveInputs ==
  [modifiers : ResolveModifiers,
   dependencies : {<< >>} \cup {<<d>> : d \in ResolveEdges}
                    \cup {<<d, e>> : d \in ResolveEdges, e \in ResolveEdges}]

InitResolve ==
  /\ CoreInit
  /\ StagesInit
  /\ CacheInit
  /\ input \in ResolveInputs
  /\ results = {}

\* Phase 2 of calculate: resolveDependencies(modifiers, dependencies)
Resolve ==
  /\ results = {}
  /\ results' = {ResolveDependencies(input.modifiers, input.dependencies)}
  /\ UNCHANGED input
  /\ UNCHANGED engineFrame

NextResolve == Resolve

SpecResolve == InitResolve /\ [][NextResolve]_vars

\* The modifiers that n requires, by the REQUIRES dependencies of the input.
RequiredBy(dependencies, n) ==
  {dependencies[i].depends_on :
     i \in {j \in DOMAIN dependencies :
              /\ dependencies[j].modifier_id = n
              /\ dependencies[j].dependency_type = "REQUIRES"}}

PositionIn(s, x) == CHOOSE i \in DOMAIN s : s[i] = x

\* Every modifier of the order comes after the modifiers it requires.
IsTopologicalOrder(order, dependencies) ==
  \A i \in DOMAIN order :
    \A req \in RequiredBy(dependencies, order[i]) :
      req \in Range(order) /\ PositionIn(order, req) < i

\* a comes before b by (chain_priority, id).
ChainPriorityThenId(modifiers, a, b) ==
  LET pa == ChainPriorityOf(ModifierMap(modifiers, a))
      pb == ChainPriorityOf(ModifierMap(modifiers, b))
  IN IF pa # pb THEN pa < pb ELSE a <= b

\* At every place of the order, the modifier chosen is the first by
\* (chain_priority, id) of those whose requirements are all placed before.
TiesByChainPriorityThenId(order, modifiers, dependencies) ==
  \A i \in DOMAIN order : \A j \in DOMAIN order :
    (/\ i < j
     /\ \A req \in RequiredBy(dependencies, order[j]) :
          req \in Range(order) /\ PositionIn(order, req) < i)
      => ChainPriorityThenId(modifiers, order[i], order[j])

\* C26: the resolved order is a topological order of the REQUIRES edges, and
\* among the modifiers eligible at the same time the one with the lower
\* chain priority, then the lower id, comes first.
C26_TopologicalOrderWithTieBreaks ==
  \A r \in results :
    ~r.thrown =>
      /\ IsTopologicalOrder(r.sorted, input.dependencies)
      /\ TiesByChainPriorityThenId(r.sorted, input.modifiers,
                                   input.dependencies)

\* The modifiers to drop for a missing requirement: those with a REQUIRES
\* target that is not in the input, and those that require a dropped one.
RECURSIVE DroppedFrom(_, _, _)
DroppedFrom(modifiers, dependencies, dropped) ==
  LET more == {n \in ModifierIds(modifiers) :
                 \E req \in RequiredBy(dependencies, n) :
                   req \notin ModifierIds(modifiers) \/ req \in dropped}
  IN IF more \subseteq dropped THEN dropped
     ELSE DroppedFrom(modifiers, dependencies, dropped \cup more)

Dropped(in) == DroppedFrom(in.modifiers, in.dependencies, {})

ReasonsOf(r, reason) == {x.id : x \in {y \in r.rejected : y.reason = reason}}

\* C27: when the REQUIRES edges have no cycle, the modifiers rejected with
\* missing_requirement are exactly those with a REQUIRES target that is absent
\* or itself dropped, and every other modifier is kept by the step.
C27_MissingRequirementExactly ==
  \A r \in results :
    ~DetectCycles(BuildDependencyGraph(input.modifiers, input.dependencies))
      => /\ ~r.thrown
         /\ ReasonsOf(r, "missing_requirement") = Dropped(input)
         /\ ModifierIds(input.modifiers) \ Dropped(input) = Range(r.sorted)

\* a and b are the two ends of an EXCLUDES dependency of the input.
ExcludesPair(dependencies, a, b) ==
  \E i \in DOMAIN dependencies :
    /\ dependencies[i].dependency_type = "EXCLUDES"
    /\ {dependencies[i].modifier_id, dependencies[i].depends_on} = {a, b}

\* The first accepted modifier, in the order, that is in an EXCLUDES pair
\* with b.
FirstWinner(r, dependencies, b) ==
  r.approved[CHOOSE i \in DOMAIN r.approved :
               /\ ExcludesPair(dependencies, r.approved[i], b)
               /\ \A j \in DOMAIN r.approved :
                    ExcludesPair(dependencies, r.approved[j], b) => i <= j]

\* C28: of the two modifiers of an EXCLUDES pair, once one is accepted the
\* other is rejected with excluded_by naming the first accepted modifier, in
\* topological order, that excludes it; no two accepted modifiers are the two
\* ends of an EXCLUDES dependency, and every excluded_by names such a winner.
C28_FirstAcceptedWinsExclusion ==
  \A r \in results :
    ~r.thrown =>
      /\ \A a \in Range(r.approved) : \A b \in Range(r.approved) :
           a # b => ~ExcludesPair(input.dependencies, a, b)
      /\ \A a \in Range(r.approved) : \A b \in Range(r.sorted) :
           (a # b /\ ExcludesPair(input.dependencies, a, b))
             => [id |-> b, reason |-> "excluded_by",
                 by |-> FirstWinner(r, input.dependencies, b)] \in r.rejected
      /\ \A x \in r.rejected :
           x.reason = "excluded_by"
             => /\ x.id \notin Range(r.approved)
                /\ x.by \in Range(r.approved)
                /\ ExcludesPair(input.dependencies, x.by, x.id)
                /\ PositionIn(r.sorted, x.by) < PositionIn(r.sorted, x.id)

\* A modifier that a REQUIRES edge placed later is rejected by the one it
\* excludes, and a third modifier is accepted.
C28_Witness ==
  \E r \in results :
    /\ ~r.thrown
    /\ Len(r.approved) = 2
    /\ \E x \in r.rejected :
         /\ x.reason = "excluded_by"
         /\ x.by = r.sorted[1]
         /\ RequiredBy(input.dependencies, x.id) # {}

\* ------------------------------------------------------------------
\* Grouping and group order of the compliant engine (groupModifiers,
\* sortGroups, applyModifierGroups): three modifiers that differ in
\* application type, category, kind and chain priority.
\* ------------------------------------------------------------------
ApplicationTypes == {"pre_tax", "cost", "post_tax"}
Categories == {"discount", "rebate"}
Kinds == {"percentage", "fixed"}
GroupedModifiers == 3

\* x || 99
OrNinetyNine(x) == IF x = 0 THEN 99 ELSE x

\* cohortOrder, categoryOrder and typeOrder of sortGroups; a value that is
\* not a key of the table gives undefined.
CohortOrder(v) ==
  CASE v = "pre_tax" -> 0 [] v = "cost" -> 1 [] v = "post_tax" -> 2
    [] OTHER -> 0

CategoryOrder(v) ==
  CASE v = "discount" -> 0 [] v = "rebate" -> 1 [] v = "fee" -> 2
    [] v = "bonus" -> 3 [] v = "adjustment" -> 4 [] OTHER -> 0

TypeOrder(v) ==
  CASE v = "percentage" -> 0 [] v = "fixed" -> 1 [] v = "margin" -> 2
    [] v = "quantity" -> 3 [] v = "cost_adjustment" -> 4 [] OTHER -> 0

\* The place of an attribute value among the values used here, in the order
\* of localeCompare.
Alphabetical(v) ==
  CASE v = "cost" -> 1 [] v = "post_tax" -> 2 [] v = "pre_tax" -> 3
    [] v = "discount" -> 1 [] v = "rebate" -> 2
    [] v = "fixed" -> 1 [] v = "percentage" -> 2

\* generateGroupKey: the attributes joined in this order; the modifiers here
\* agree on tax_setting, affects_quantity, cost_percentage, display_mode and
\* product_id.
GenerateGroupKey(modifier) ==
  <<modifier.modifier_type, modifier.category, modifier.application_type>>

\* a.key.localeCompare(b.key) < 0
KeyBefore(a, b) ==
  LET ra == [i \in 1..3 |-> Alphabetical(a[i])]
      rb == [i \in 1..3 |-> Alphabetical(b[i])]
  IN \E i \in 1..3 : ra[i] < rb[i] /\ \A j \in 1..(i - 1) : ra[j] = rb[j]

\* extractGroupAttributes
ExtractGroupAttributes(modifier) ==
  [modifier_type |-> modifier.modifier_type,
   category |-> modifier.category,
   application_type |-> modifier.application_type,
   chain_priority |-> ChainPriorityOf(modifier)]

Min(a, b) == IF a <= b THEN a ELSE b

\* groupModifiers: the groups in the order in which their first modifier
\* comes; the chain priority of a group is the least of its modifiers.
RECURSIVE GroupsOfCompliant(_, _)
GroupsOfCompliant(modifiers, groups) ==
  IF modifiers = << >> THEN groups
  ELSE LET modifier == Head(modifiers)
           groupKey == GenerateGroupKey(modifier)
           at == {i \in DOMAIN groups : groups[i].key = groupKey}
       IN IF at = {}
          THEN GroupsOfCompliant(
                 Tail(modifiers),
                 Append(groups,
                        [key |-> groupKey,
                         attributes |-> ExtractGroupAttributes(modifier),
                         modifiers |-> <<modifier.id>>]))
          ELSE LET i == CHOOSE j \in at : TRUE
               IN GroupsOfCompliant(
                    Tail(modifiers),
                    [groups EXCEPT
                       ![i].attributes.chain_priority =
                          Min(IF @ = 0 THEN DefaultPriority ELSE @,
                              ChainPriorityOf(modifier)),
                       ![i].modifiers = Append(@, modifier.id)])

CompliantGroupModifiers(modifiers) == GroupsOfCompliant(modifiers, << >>)

\* The sort key of the comparator of sortGroups, before the group key.
SortRanks(g) ==
  <<OrNinetyNine(CohortOrder(g.attributes.application_type)),
    OrNinetyNine(CategoryOrder(g.attributes.category)),
    OrNinetyNine(TypeOrder(g.attributes.modifier_type)),
    IF g.attributes.chain_priority = 0 THEN DefaultPriority
    ELSE g.attributes.chain_priority>>

LexBefore(x, y) ==
  \E i \in DOMAIN x : x[i] < y[i] /\ \A j \in 1..(i - 1) : x[j] = y[j]

\* The comparator of sortGroups is negative; no group has created_at among
\* its attributes, so that step never decides.
GroupBefore(a, b) ==
  \/ LexBefore(SortRanks(a), SortRanks(b))
  \/ SortRanks(a) = SortRanks(b) /\ KeyBefore(a.key, b.key)

\* sortGroups
RECURSIVE SortGroupSet(_)
SortGroupSet(G) ==
  IF G = {} THEN << >>
  ELSE LET first == CHOOSE a \in G : \A b \in G \ {a} : GroupBefore(a, b)
       IN <<first>> \o SortGroupSet(G \ {first})

SortGroups(groups) == SortGroupSet(Range(groups))

GroupInputs ==
  {m \in [1..GroupedModifiers ->
            [id : 1..GroupedModifiers, application_type : ApplicationTypes,
             category : Categories, modifier_type : Kinds,
             chain_priority : ChainPriorities]] :
     \A i \in 1..GroupedModifiers : m[i].id = i}

InitGroups ==
  /\ CoreInit
  /\ StagesInit
  /\ CacheInit
  /\ input \in [modifiers : GroupInputs]
  /\ results = {}

\* Phase 4 and 5 of calculate: the groups in the order in which
\* applyModifierGroups applies them.
GroupAndSort ==
  /\ results = {}
  /\ results' = {SortGroups(CompliantGroupModifiers(input.modifiers))}
  /\ UNCHANGED input
  /\ UNCHANGED engineFrame

NextGroups == GroupAndSort

SpecGroups == InitGroups /\ [][NextGroups]_vars

\* The order the groups are to be applied in: cohort, category, kind, then
\* the least chain priority of the group.
CohortRank(v) ==
  CASE v = "pre_tax" -> 0 [] v = "cost" -> 1 [] v = "post_tax" -> 2

CategoryRank(v) ==
  CASE v = "discount" -> 0 [] v = "rebate" -> 1 [] v = "fee" -> 2
    [] v = "bonus" -> 3 [] v = "adjustment" -> 4

KindRank(v) ==
  CASE v = "percentage" -> 0 [] v = "fixed" -> 1 [] v = "margin" -> 2
    [] v = "quantity" -> 3 [] v = "cost_adjustment" -> 4

MinChainPriority(g) ==
  LET ps == {ChainPriorityOf(input.modifiers[i]) :
               i \in Range(g.modifiers)}
  IN CHOOSE p \in ps : \A q \in ps : p <= q

AppliedRanks(g) ==
  <<CohortRank(g.key[3]), CategoryRank(g.key[2]), KindRank(g.key[1]),
    MinChainPriority(g)>>

\* C29: the groups are applied in the order of their cohort (pre_tax, cost,
\* post_tax), then category (discount, rebate, fee, bonus, adjustment), then
\* kind (percentage, fixed, margin, quantity, cost_adjustment), then least
\* chain priority: no group is applied before one that these four place
\* ahead of it.
C29_GroupOrder ==
  \A r \in results :
    \A i \in DOMAIN r : \A j \in DOMAIN r :
      i < j => ~LexBefore(AppliedRanks(r[j]), AppliedRanks(r[i]))

\* ------------------------------------------------------------------
\* The fixed branch of applyGroup of the compliant engine: a group of one
\* or two fixed modifiers allocated over two or three line items. Amounts
\* are in units of 1e-8; unit prices are whole amounts.
\* ------------------------------------------------------------------
\* fixed_amount: 0.00000015, 0.1, -0.00000005
FixedAmounts == {15, 10000000, -5}
UnitPrices == {0, 1, 3, 4}
Quantities == {1, 2}
MaxLines == 3

\* new Decimal(unitPrice).times(item.quantity || 0)
LineBase(item) == item.unit_price * item.quantity

RECURSIVE SumOf(_)
SumOf(s) == IF s = << >> THEN 0 ELSE Head(s) + SumOf(Tail(s))

TotalBase(lineItems) ==
  SumOf([i \in DOMAIN lineItems |-> LineBase(lineItems[i])])

\* lineTotal.dividedBy(totalBase) is exact when the total base has no prime
\* factor other than 2 and 5; the line items here are limited to those.
ExactRatios(lineItems) ==
  TotalBase(lineItems) \in {0, 1, 2, 4, 5, 8, 10, 16, 20}

\* applyGroup for modifier_type 'fixed': the adjustment is the sum of the
\* fixed amounts; each line gets Q7(adjustment * lineTotal / totalBase) and
\* the last one also Q7(adjustment - allocatedSum); with no positive base
\* every allocation is zero.
ApplyFixedGroup(fixedAmounts, lineItems) ==
  LET adjustment == SumOf(fixedAmounts)
      totalBase == TotalBase(lineItems)
      firstPass == [i \in DOMAIN lineItems |->
                      IntermediateOf(adjustment * LineBase(lineItems[i]),
                                     totalBase)]
      diff == Intermediate(adjustment - SumOf(firstPass))
      last == Len(lineItems)
  IN [adjustment |-> adjustment,
      allocations |->
        IF totalBase > 0
        THEN IF diff # 0
             THEN [firstPass EXCEPT ![last] = Intermediate(@ + diff)]
             ELSE firstPass
        ELSE [i \in DOMAIN lineItems |-> 0]]

AllocationInputs ==
  LET item == [unit_price : UnitPrices, quantity : Quantities]
      lines == {l \in UNION {[1..n -> item] : n \in 2..MaxLines} :
                  ExactRatios(l)}
  IN [lineItems : lines,
      fixedAmounts : {<<a>> : a \in FixedAmounts}
                       \cup {<<a, b>> : a \in FixedAmounts,
                                        b \in FixedAmounts}]

InitAllocate ==
  /\ CoreInit
  /\ StagesInit
  /\ CacheInit
  /\ input \in AllocationInputs
  /\ results = {}

\* applyModifierGroups: applyGroup(group, runningTotal, lineItems) for a
\* fixed group.
ApplyGroup ==
  /\ results = {}
  /\ results' = {ApplyFixedGroup(input.fixedAmounts, input.lineItems)}
  /\ UNCHANGED input
  /\ UNCHANGED engineFrame

NextAllocate == ApplyGroup

SpecAllocate == InitAllocate /\ [][NextAllocate]_vars

\* C30: for a fixed group and any line items, the per-line allocations add
\* up to the adjustment of the group at seven decimals.
C30_AllocationsSumToAdjustment ==
  \A r \in results : SumOf(r.allocations) = Intermediate(r.adjustment)

\* ------------------------------------------------------------------
\* SafeRuleEvaluator: evaluate, evalNode, evalComparison, evalLogical over
\* rule trees with boolean literals. A tree is given by its shape: a full
\* tree has two subtrees of the same height at every node, a spine has a
\* literal on the right of every node.
\* ------------------------------------------------------------------
MaxRuleDepth == 10
MaxOperations == 1000
MaxHeight == 11
Unlimited == 100000

RuleOps == {"AND", "OR", "=="}
Heights == {0, 1, 2, 8, 9, 10, MaxHeight}

Subtrees ==
  [shape : {"full", "spine"}, op : RuleOps, height : Heights,
   value : BOOLEAN]

\* node.type
NodeType(node) ==
  IF node.shape = "pair"
  THEN IF node.op = "==" THEN "comparison" ELSE "logical"
  ELSE IF node.height = 0 THEN "literal"
       ELSE IF node.op = "==" THEN "comparison" ELSE "logical"

\* node.left and node.right
LeftOf(node) ==
  IF node.shape = "pair" THEN node.left
  ELSE [node EXCEPT !.height = @ - 1]

RightOf(node) ==
  IF node.shape = "pair" THEN node.right
  ELSE IF node.shape = "full" THEN [node EXCEPT !.height = @ - 1]
       ELSE [node EXCEPT !.height = 0]

\* The depth check of evalNode, and an evaluator without it.
DepthNeverExceeded(depth, maxDepth) == FALSE
DepthExceeded(depth, maxDepth) == depth > maxDepth

\* The outcome of a throw: no value, the operations counted so far and the
\* deepest node entered.
Failed(why, count, deepest) ==
  [thrown |-> why, value |-> FALSE, count |-> count, deepest |-> deepest]

\* evalNode(node, context, depth) with this.operationCount = count on
\* entry and the limits given; evalComparison evaluates both sides,
\* evalLogical evaluates the right side only when the left one does not
\* decide.
RECURSIVE EvalNode(_, _, _, _, _)
EvalNode(node, depth, count, maxDepth, maxOperations) ==
  IF DepthExceeded(depth, maxDepth)
  THEN Failed("depth", count, depth)
  ELSE IF count + 1 > maxOperations
  THEN Failed("operations", count + 1, depth)
  ELSE IF NodeType(node) = "literal"
  THEN [thrown |-> "none", value |-> node.value, count |-> count + 1,
        deepest |-> depth]
  ELSE
    LET left == EvalNode(LeftOf(node), depth + 1, count + 1, maxDepth,
                         maxOperations)
    IN IF left.thrown # "none" THEN left
       ELSE IF \/ node.op = "AND" /\ ~left.value
               \/ node.op = "OR" /\ left.value
       THEN left
       ELSE
         LET right == EvalNode(RightOf(node), depth + 1, left.count,
                               maxDepth, maxOperations)
             deepest == IF left.deepest > right.deepest THEN left.deepest
                        ELSE right.deepest
         IN IF right.thrown # "none"
            THEN [right EXCEPT !.deepest = deepest]
            ELSE [thrown |-> "none",
                  value |-> IF node.op = "==" THEN left.value = right.value
                            ELSE right.value,
                  count |-> right.count,
                  deepest |-> deepest]

\* evaluate(rule, context): the counter starts at 0 and the depth at 0.
Evaluate(rule) == EvalNode(rule, 0, 0, MaxRuleDepth, MaxOperations)

\* The rules: two subtrees under one operator.
RuleInputs ==
  [shape : {"pair"}, op : RuleOps, left : Subtrees,
   right : {s \in Subtrees : s.shape = "full" /\ s.op # "OR"
                               /\ s.height \in {0, 8, 10}}]

InitRules ==
  /\ CoreInit
  /\ StagesInit
  /\ CacheInit
  /\ input \in RuleInputs
  /\ results = {}

EvaluateRule ==
  /\ results = {}
  /\ results' = {Evaluate(input)}
  /\ UNCHANGED input
  /\ UNCHANGED engineFrame

NextRules == EvaluateRule

SpecRules == InitRules /\ [][NextRules]_vars

\* What the evaluation of the rule visits when nothing limits it.
FreeEvaluation(rule) == EvalNode(rule, 0, 0, Unlimited, Unlimited)

\* C31: an evaluation that returns has entered no node deeper than 10 and
\* counted at most 1000 operations, and returns the value of the rule; an
\* evaluation that would enter a deeper node or need more operations fails.
C31_EvaluationBounded ==
  \A r \in results :
    LET free == FreeEvaluation(input)
    IN /\ r.deepest <= MaxRuleDepth + 1
       /\ r.count <= MaxOperations + 1
       /\ r.thrown = "none"
            => /\ r.deepest <= MaxRuleDepth
               /\ r.count <= MaxOperations
               /\ r.value = free.value
       /\ (free.deepest > MaxRuleDepth \/ free.count > MaxOperations)
            <=> r.thrown # "none"

\* An evaluation stopped by the operation limit on a tree no deeper than
\* the depth limit allows.
C31_Witness ==
  \E r \in results :
    /\ r.thrown = "operations"
    /\ FreeEvaluation(input).deepest <= MaxRuleDepth

\* ------------------------------------------------------------------
\* Latency samples: CalculationOrchestrator.calculate pushes one duration
\* per tier that returned, and the preparation records the duration of a
\* full process with MetricsCollector.recordStageTime.
\* ------------------------------------------------------------------
metricsFrame == <<callPc, callReq, response, hit, txState, txBuf, resultWrites,
                  webhookCalls, priorDone, idemCache, resultCache,
                  calculation_results, event_outbox, nextId, commitOrder,
                  isProcessing, pubPc, batch, cur, emitted, now, commitFaults,
                  pubFaults, loopVars, prepVars, lockVars, orchVars,
                  fetchVars, freezeVars, engineVars, cacheVars,
               managerVars>>

\* new MetricsCollector(): maxSize = 1000
MaxSize == 1000
MaxRequests == 1002
MaxIrregular == 2
Duration == 1

\* recordStageTime: push, then drop the oldest when over maxSize.
RecordStageTime(samples, duration) ==
  LET pushed == Append(samples, duration)
  IN IF Len(pushed) > MaxSize THEN Tail(pushed) ELSE pushed

\* The tiers that returned before the request ended with this outcome.
TiersDone(outcome) ==
  CASE outcome = "fail1" -> {}
    [] outcome = "fail2" -> {"preProcessor"}
    [] outcome = "fail3" -> {"preProcessor", "pureEngine"}
    [] OTHER -> {"preProcessor", "pureEngine", "postProcessor"}

\* calculate(request): the preparation is a full process, or a cache hit
\* that records no stage time, or throws; then each tier that returns has
\* its duration pushed.
RecordRequest(outcome) ==
  /\ Len(tierLatencies.preProcessor) + irregular < MaxRequests
  /\ outcome # "ok" => irregular < MaxIrregular
  /\ irregular' = IF outcome = "ok" THEN irregular ELSE irregular + 1
  /\ recentSamples' = IF outcome \in {"hit", "fail1"} THEN recentSamples
                      ELSE RecordStageTime(recentSamples, Duration)
  /\ tierLatencies' =
       [t \in DOMAIN tierLatencies |->
          IF t \in TiersDone(outcome)
          THEN Append(tierLatencies[t], Duration)
          ELSE tierLatencies[t]]
  /\ UNCHANGED metricsFrame

NextMetrics ==
  \E outcome \in {"ok", "hit", "fail1", "fail2", "fail3"} :
    RecordRequest(outcome)

SpecMetrics == Init /\ [][NextMetrics]_vars

\* C32: whatever the number of requests recorded, at most 1000 latency
\* samples are retained for each stage.
C32_RecentSamplesBounded ==
  /\ Len(recentSamples) <= MaxSize
  /\ \A t \in DOMAIN tierLatencies : Len(tierLatencies[t]) <= MaxSize

\* ------------------------------------------------------------------
\* Overlapping commit-stage calls for one checksum.
\* ------------------------------------------------------------------
\* Neither call had returned when the other was made.
Overlap(p, q) ==
  /\ callPc[p] # "idle" /\ callPc[q] # "idle"
  /\ p \notin priorDone[q] /\ q \notin priorDone[p]

\* The call has a committed outbox row.
InsertedRow(p) == \E id \in DOMAIN event_outbox : event_outbox[id].by = p

\* C33: of two overlapping commit-stage calls for results with the same
\* checksum, at most one inserts an outbox row and writes the result.
C33_OneWriterAmongOverlapping ==
  \A p \in Calls : \A q \in Calls \ {p} :
    (/\ Overlap(p, q)
     /\ callReq[p].checksum = callReq[q].checksum)
      => ~(/\ InsertedRow(p) /\ InsertedRow(q)
           /\ resultWrites[p] > 0 /\ resultWrites[q] > 0)

\* ------------------------------------------------------------------
\* The publisher loop under fair scheduling.
\* ------------------------------------------------------------------
\* The claim query is issued at a later reading of the clock than the last
\* statement.
FetchLater(w) == Fetch(w) /\ now' > now

\* The interval timer keeps firing, every awaited statement of a run
\* settles, and the clock moves on between runs; the statements fail
\* finitely often.
PublisherFairness ==
  /\ WF_vars(Publisher("w1"))
  /\ SF_vars(FetchLater("w1"))

\* The publisher reads no column that depends on the result committed: the
\* commits that fill the table are all for one result here, inserting two
\* rows when they overlap and one when they follow each other.
NextOutboxLive ==
  \/ \E p \in Calls :
       Commits(p) /\ callReq'[p] \in {NoResult, [proposalId |-> "pA", checksum |-> "c1"]}
  \/ Publisher("w1")

SpecOutboxLive == InitOutbox /\ [][NextOutboxLive]_vars /\ PublisherFairness

Terminal(id) ==
  /\ id \in DOMAIN event_outbox
  /\ event_outbox[id].status \in {"COMPLETED", "DEAD_LETTER"}

\* C34: every outbox row inserted by a committed transaction eventually
\* reaches COMPLETED or DEAD_LETTER while the publisher loop keeps being
\* run; no row stays PENDING or PROCESSING forever.
C34_EveryRowSettles ==
  \A id \in 1..Cardinality(Calls) :
    (id \in DOMAIN event_outbox) ~> Terminal(id)

\* One row was dead-lettered after its retries, the other completed after a
\* run that had left it in PROCESSING.
C34_Witness ==
  /\ Cardinality(DOMAIN event_outbox) = 2
  /\ \E id \in DOMAIN event_outbox : event_outbox[id].status = "DEAD_LETTER"
  /\ \E id \in DOMAIN event_outbox : event_outbox[id].status = "COMPLETED"

Received(q) == prepPc[q] = "done" /\ prepResult[q] \in {"fresh", "cached"}

\* The request content the input handed to call q was prepared from: that of
\* the call whose _doProcess promise it was given.
PreparedFrom(q) == prepBody[prepOwner[q]]

\* C36: a caller of the preparation stage never receives a prepared input
\* computed from a request whose content differs from its own, even when a
\* different request for the same proposalId is in flight at the time of the
\* call.
C36_PreparedFromOwnRequest ==
  \A q \in PrepCalls : Received(q) => PreparedFrom(q) = prepBody[q]

\* ------------------------------------------------------------------
\* What a change-free request receives from the cache.
\* ------------------------------------------------------------------
\* The modifier values of the prepared input with root r, in order.
ModifierValues(h, r) ==
  [i \in DOMAIN ModifiersOf(h, r) |-> h[ModifiersOf(h, r)[i]].value]

\* C37: a cache hit for a request that carries no changes returns the input
\* prepared from that request's own base data, whatever delta requests for
\* the same base request were served before it.
C37_HitReturnsBaseInput ==
  [][ \A c \in Holders :
        PrepareHit(c) =>
          ModifierValues(heap', holding'[c]) = ModifierValues(heap, basePrepared)
    ]_vars

\* ------------------------------------------------------------------
\* calculateWithLock over a bounded connection pool.
\* ------------------------------------------------------------------
\* A step of call c, which is for proposal pA, in which no statement fails.
LockStepOk(c) ==
  /\ LockStep(c)
  /\ lockOutcome'[c] # "error"
  /\ lockReq'[c].proposalId \in {"none", "pA"}

NextLockOk == \E c \in LockCalls : LockStepOk(c)

\* The database answers every statement, and a call that can go on does.
SpecLockLive ==
  /\ Init
  /\ [][NextLockOk]_vars
  /\ \A c \in LockCalls : WF_vars(LockStepOk(c))

\* The call has ended and holds neither the lock nor a connection.
Finished(c) ==
  /\ lockPc[c] = "done"
  /\ clientsHeld[c] = 0
  /\ lockHolder[lockReq[c].proposalId] # c

\* C38: with a bounded connection pool, concurrent calculateWithLock calls
\* for the same proposalId never deadlock: each call eventually obtains the
\* advisory lock, finishes its transaction, and releases the lock and every
\* connection it took.
C38_EveryCallFinishes ==
  \A c \in LockCalls : (lockPc[c] # "idle") ~> Finished(c)

\* ------------------------------------------------------------------
\* CalculationStateManager.getOrCalculate and invalidateProposal
\* ------------------------------------------------------------------
managerFrame == <<callPc, callReq, response, hit, txState, txBuf, resultWrites,
                  webhookCalls, priorDone, idemCache, resultCache,
                  calculation_results, event_outbox, nextId, commitOrder,
                  isProcessing, pubPc, batch, cur, emitted, now, commitFaults,
                  pubFaults, loopVars, prepVars, lockVars, orchVars,
                  fetchVars, freezeVars, engineVars, cacheVars, metricsVars>>

\* engine.generateIdempotencyKey(engine.generateInputHash(input)): one key
\* per input.
IdempotencyKey(inp) == inp

\* What calculateWithLock returns for the input: the result of
\* engine.calculate(input), or the stored result of the same key.
CalculateFor(a, inp) == [proposalId |-> a, input |-> inp]

\* this.cache.has(cacheKey), cacheKey = proposalId:vEngineVersion
ProposalCacheHas(a) == proposalCache[a] # NoCalc

\* getOrCalculate(proposalId, input); calculateWithLock returns or throws.
GetOrCalculate(a, inp) ==
  /\ UNCHANGED managerFrame
  /\ \E ok \in BOOLEAN :
    LET key == IdempotencyKey(inp) IN
      IF idempotencyCache[key] # NoCalc
        THEN /\ returned' = [proposalId |-> a, input |-> inp,
                             result |-> idempotencyCache[key]]
             /\ UNCHANGED <<proposalCache, idempotencyCache>>
      ELSE IF ProposalCacheHas(a)
        THEN /\ idempotencyCache' =
                  [idempotencyCache EXCEPT ![key] = proposalCache[a]]
             /\ returned' = [proposalId |-> a, input |-> inp,
                             result |-> proposalCache[a]]
             /\ UNCHANGED proposalCache
      ELSE IF ok
        THEN /\ proposalCache' =
                  [proposalCache EXCEPT ![a] = CalculateFor(a, inp)]
             /\ idempotencyCache' =
                  [idempotencyCache EXCEPT ![key] = CalculateFor(a, inp)]
             /\ returned' = [proposalId |-> a, input |-> inp,
                             result |-> CalculateFor(a, inp)]
        ELSE /\ returned' = [proposalId |-> a, input |-> inp,
                             result |-> NoCalc]
             /\ UNCHANGED <<proposalCache, idempotencyCache>>

\* invalidateProposal(proposalId): the proposal's entry is deleted, and so is
\* every idempotency entry whose value has this proposalId.
InvalidateProposal(a) ==
  /\ proposalCache' = [proposalCache EXCEPT ![a] = NoCalc]
  /\ idempotencyCache' =
       [k \in CalcInputs |->
          IF idempotencyCache[k].proposalId = a THEN NoCalc
          ELSE idempotencyCache[k]]
  /\ UNCHANGED returned
  /\ UNCHANGED managerFrame

NextManager ==
  \/ \E a \in Proposals : \E inp \in CalcInputs : GetOrCalculate(a, inp)
  \/ \E a \in Proposals : InvalidateProposal(a)

SpecManager == Init /\ [][NextManager]_vars

\* C39: getOrCalculate(proposalId, input) returns the result of calculating
\* the given input, after any sequence of earlier calls for the same
\* proposalId with other inputs.
C39_ResultOfGivenInput ==
  returned.result # NoCalc => returned.result.input = returned.input

\* ------------------------------------------------------------------
\* The in-progress guard of the publisher.
\* ------------------------------------------------------------------
\* C40: whenever no run of the publisher is under way, however the last run
\* ended, the in-progress guard is released and a call of
\* processPendingEvents starts a run.
C40_GuardReleasedAfterEveryRun ==
  pubPc["w1"] = "idle" =>
    /\ ~isProcessing["w1"]
    /\ ENABLED ProcessPendingEvents("w1")

\* A run ended by a statement that threw left a row in PROCESSING, and a
\* later run has started and is about to fetch.
C40_Witness ==
  /\ pubPc["w1"] = "fetch"
  /\ isProcessing["w1"]
  /\ pubFaults < MaxFaults
  /\ \E id \in DOMAIN event_outbox : event_outbox[id].status = "PROCESSING"
====
